---- MODULE Spec2Model ----
(***************************************************************************)
(* The real-time voice client of Therachatsv2 as a state machine.          *)
(*                                                                         *)
(* RealtimeService exists in three versions in the repository:             *)
(*   "part_001"        src/unnamed/part_001 (WebSocket, hardened decoder)  *)
(*   "ChatInput"       src/src/components/ChatInput.tsx:159-627 (WebSocket,*)
(*                     first decoder)                                      *)
(*   "realtimeService" src/src/services/realtimeService.ts (rt-client)     *)
(* The variable impl fixes the version of one client instance.  Every      *)
(* action is one run-to-completion task of the browser's event loop: a     *)
(* public call up to its first real suspension, a socket / recorder /      *)
(* timer callback together with the promise continuations it releases.    *)
(***************************************************************************)
EXTENDS Naturals, Integers, Sequences, FiniteSets, TLC

\* ---------------------------------------------------------------- bounds
MaxSockets == 2      \* transports one client instance may create
MaxStreams == 2      \* microphone streams the browser may hand out
MaxDecoding == 1     \* audio payloads being decoded (decodeAudioData) at once
MaxPending == 1      \* audio chunks being converted (blob.arrayBuffer()) at once
MaxGum     == 1      \* startListening() calls awaiting the microphone at once
MaxInit    == 1      \* initialize() calls awaiting initializeAudio() at once
MaxPlaying == 2      \* buffer sources rendering at once
MaxRecognizers == 2  \* SpeechRecognition objects one client may create
MaxRestart == 2      \* restart timers of recognizer.onend pending at once
MaxFinals == 2       \* final results one onresult event carries
MaxPipelines == 2    \* handleUserSpeech() calls in progress at once
MaxOrphans == 1      \* watchdog timers pending with no reference left to them
MaxSilent == 21      \* audio frames counted while no message has come in
MaxFallbacks == 2    \* fallbackToRestAPI() calls counted in one streaming run
MaxProcessors == 2   \* ScriptProcessors connected at once
MaxConvs == 2        \* conversations the chat page may create (generateId)
MaxMsgs == 3         \* messages in one conversation

Sockets == 1..MaxSockets
Streams == 1..MaxStreams
Recognizers == 1..MaxRecognizers
NULL    == 0
NoTimer == -1      \* no watchdog timer is pending

\* string-valued slots: JavaScript null / undefined
Null      == "null"
Undefined == "undefined"

VARIABLES
  impl,               \* which RealtimeService source this instance runs
  config,             \* this.config
  websocket,          \* this.websocket (part_001, ChatInput): a socket or NULL
  client,             \* this.client (realtimeService): a socket or NULL
  isConnected,        \* this.isConnected
  isListening,        \* this.isListening
  isSpeaking,         \* this.isSpeaking
  mediaStream,        \* this.mediaStream / this.audioStream: a stream or NULL
  mediaRecorder,      \* this.mediaRecorder / this.audioRecorder: a recorder or NULL
  audioContext,       \* this.audioContext # null
  sessionId,          \* this.sessionId
  conversationActive, \* this.conversationActive
  audioBuffer,        \* this.audioBuffer.length (realtimeService)
  sending,            \* sockets whose client.send() in connect() is awaited
  loop,               \* sockets whose messages() handleRealtimeMessages() reads
  sock,               \* browser: readyState of every socket created
  setupTimers,        \* pending setTimeout(sendSessionSetup, 500) callbacks
  stream,             \* browser: state of every microphone stream
  rec,                \* browser: state of the MediaRecorder on each stream
  gum,                \* startListening() calls awaiting getUserMedia
  blobs,              \* processAudioData() calls awaiting blob.arrayBuffer()
  decoding,           \* handleAudioBuffer() calls awaiting decodeAudioData
  playing,            \* browser: buffer sources started and not yet ended
  speechRecognizer,   \* this.speechRecognizer (VoiceLiveService): a recognizer or NULL
  recog,              \* browser: state of every SpeechRecognition created
  restartTimers,      \* pending setTimeout(restart, 100) callbacks of onend
  isProcessing,       \* this.isProcessing (VoiceLiveService)
  synthesizing,       \* speakResponse() calls awaiting synthesizeSpeech()
  awaited,            \* sockets whose tryWebSocketRecognition() promise is unsettled
  connectTimers,      \* sockets whose 10 s connection timer is pending
  audioProcessor,     \* this.audioProcessor # null
  processors,         \* browser: ScriptProcessors connected and delivering buffers
  hasReceivedMessage, \* this.hasReceivedMessage
  messageTimeout,     \* audio periods left of the pending timer this.messageTimeout
                      \* refers to, or NoTimer
  orphans,            \* the same for pending watchdog timers nothing refers to
  silent,             \* audio frames sent in this streaming run with
                      \* hasReceivedMessage false
  fallbacks,          \* fallbackToRestAPI() calls since this streaming run began
  conversations,      \* chat page: the conversations state, as a set
  nextId,             \* chat page: the next id generateId() gives
  currentConversation,\* chat page: the currentConversation state
  isTemporaryChat,    \* chat page: the isTemporaryChat state
  sends,              \* chat page: handleSendMessage() calls awaiting callOpenAI
                      \* (isLoading is sends # {})
  initializing,       \* initialize() calls awaiting initializeAudio()
  hist,               \* the public calls made so far, as far as they are
                      \* new; connect; disconnect
  op,                 \* the task that ran last
  out                 \* what that task did, in order

vars == <<impl, config, websocket, client, isConnected, isListening, isSpeaking,
          mediaStream, mediaRecorder, audioContext, sessionId,
          conversationActive, audioBuffer, sending, loop, sock, setupTimers,
          stream, rec, gum, blobs, decoding, playing, speechRecognizer, recog,
          restartTimers, isProcessing, synthesizing, awaited, connectTimers,
          audioProcessor, processors, hasReceivedMessage, messageTimeout, orphans,
          silent, fallbacks, conversations, nextId, currentConversation, isTemporaryChat,
          sends, initializing, hist, op, out>>

\* what only the chat page (Index) has
ixVars == <<conversations, nextId, currentConversation, isTemporaryChat, sends>>

\* the reply pipeline of VoiceLiveService.handleUserSpeech()
vlPipe == <<isProcessing, synthesizing>>

\* the WebSocket recognition of VoiceLiveService and its audio streaming
vlStream == <<awaited, connectTimers, audioProcessor, processors, hasReceivedMessage,
              messageTimeout, orphans, silent, fallbacks>>

\* what only VoiceLiveService has
vlVars == <<speechRecognizer, recog, restartTimers, vlPipe, vlStream>>

\* what only the rt-client version has, and what only the WebSocket ones have
rtVars == <<client, audioBuffer, sending, loop>>
wsVars == <<websocket, isSpeaking, audioContext, sessionId, conversationActive,
            setupTimers, decoding>>

fields == <<websocket, rtVars, isConnected, isListening, isSpeaking, mediaStream,
            mediaRecorder, audioContext, sessionId, conversationActive>>

WsImpls == {"part_001", "ChatInput"}

\* ------------------------------------------------------ observable effects
\* One entry of out: <<kind, name, text argument, number argument>>.
Emit(name)          == <<"emit", name, "", 0>>
EmitArg(name, a)    == <<"emit", name, a, 0>>
Sent(type, s)       == <<"send", type, "", s>>
Closed(s)           == <<"close", "", "", s>>
Throw(e)            == <<"throw", e, "", 0>>
Acquire(m)          == <<"getUserMedia", "", "", m>>

HasKind(o, k) == \E i \in 1..Len(o) : o[i][1] = k
HasEmit(o, name) == \E i \in 1..Len(o) : o[i][1] = "emit" /\ o[i][2] = name
HasSend(o, type) == \E i \in 1..Len(o) : o[i][1] = "send" /\ o[i][2] = type
\* ------------------------------------------------------------ call history
\* connect is initialize() in part_001 and ChatInput, where connect() is
\* private, and initialize() then connect() in realtimeService.ts.
HistAfter(name) ==
  CASE hist = "new" /\ name = "initialize" ->
         IF impl = "realtimeService" THEN "initialized" ELSE "connect"
    [] hist = "initialized" /\ name = "connect" -> "connect"
    [] hist = "connect" /\ name = "disconnect" -> "connect;disconnect"
    [] OTHER -> "other"

\* a public method is called; a callback or a continuation runs
Called(name) == op' = name /\ hist' = HistAfter(name)
Ran(name)    == op' = name /\ hist' = hist

\* ------------------------------------------------------------ configuration
\* RealtimeConfig {apiKey, endpoint, deployment}; "" is an absent field.
Configs ==
  { [endpoint |-> "https://x.example.com", deployment |-> "d1", apiKey |-> "k"],
    [endpoint |-> "https://x.example.com", deployment |-> "d1", apiKey |-> ""] }

ValidConfig(c) == c.endpoint # "" /\ c.deployment # "" /\ c.apiKey # ""

\* buildWebSocketUrl(): the scheme of the address it builds, or a throw
BuildWebSocketUrlThrows(c) == ~ValidConfig(c)

\* "sendTextMessage" and the other sends: WebSocket.send() by readyState.
\* CONNECTING throws InvalidStateError, OPEN transmits, CLOSING / CLOSED
\* discards the data without an exception.
SendThrows(s) == sock[s] = "connecting"
SendOut(s, type) == IF sock[s] = "open" THEN <<Sent(type, s)>> ELSE <<>>

\* WebSocket.close() by readyState: a socket still connecting fails (error
\* and close events follow, it never opens); an open one starts closing.
CloseState(st) ==
  CASE st = "connecting" -> "aborting"
    [] st = "open"       -> "closing"
    [] OTHER             -> st

\* MediaStreamTrack.stop() on every track of stream m: a recorder still
\* recording from it delivers its last chunk and stops.
StopTracks(st, rc, m) ==
  [stream |-> [st EXCEPT ![m] = "stopped"],
   rec    |-> [rc EXCEPT ![m] = IF rc[m] = "recording" THEN "flushing" ELSE rc[m]]]

\* ------------------------------------------------------------------- Init
\* A conversation of the chat page, and currentConversation === null
Conversation(c, t, m) ==
  [id |-> c, isTemporary |-> t, messages |-> m, sentToTherapist |-> FALSE]

\* currentConversation === null
NoConversation == Conversation(NULL, FALSE, 0)

InitFields ==
  /\ websocket = NULL
  /\ client = NULL
  /\ isConnected = FALSE
  /\ isListening = FALSE
  /\ isSpeaking = FALSE
  /\ mediaStream = NULL
  /\ mediaRecorder = NULL
  /\ audioContext = FALSE
  /\ sessionId = Null
  /\ conversationActive = FALSE
  /\ audioBuffer = 0
  /\ sending = {}
  /\ loop = {}
  /\ sock = [s \in Sockets |-> "unused"]
  /\ setupTimers = 0
  /\ stream = [m \in Streams |-> "unused"]
  /\ rec = [m \in Streams |-> "none"]
  /\ gum = 0
  /\ blobs = 0
  /\ decoding = 0
  /\ playing = 0
  /\ speechRecognizer = NULL
  /\ recog = [r \in Recognizers |-> "unused"]
  /\ restartTimers = 0
  /\ isProcessing = FALSE
  /\ synthesizing = 0
  /\ awaited = {}
  /\ connectTimers = {}
  /\ audioProcessor = FALSE
  /\ processors = 0
  /\ hasReceivedMessage = FALSE
  /\ messageTimeout = NoTimer
  /\ orphans = <<>>
  /\ silent = 0
  /\ fallbacks = 0
  /\ conversations = {}
  /\ nextId = 1
  /\ currentConversation = NoConversation
  /\ isTemporaryChat = FALSE
  /\ sends = {}
  /\ initializing = 0
  /\ hist = "new"
  /\ op = "new"
  /\ out = <<>>

\* new RealtimeService(config), from part_001 or from realtimeService.ts
Clients ==
  { <<"part_001", c>> : c \in Configs } \cup
  { <<"realtimeService", c>> : c \in {d \in Configs : d.apiKey # ""} }

Init ==
  /\ \E c \in Clients : impl = c[1] /\ config = c[2]
  /\ InitFields

\* =========================================================================
\* part_001 and ChatInput: RealtimeService over a browser WebSocket
\* =========================================================================

\* buildWebSocketUrl(): part_001 validates the three fields; ChatInput builds
\* the address from whatever is there, and new WebSocket() rejects an address
\* that has no host.
ConnectThrows ==
  IF impl = "part_001" THEN BuildWebSocketUrlThrows(config)
  ELSE config.endpoint = ""

\* initialize() up to its first suspension, await this.initializeAudio(): the
\* audio context is made; connect() runs in a continuation, after whatever
\* the caller does next in the same task.
Initialize ==
  /\ impl \in WsImpls
  /\ Called("initialize")
  /\ initializing < MaxInit
  /\ initializing' = initializing + 1
  /\ audioContext' = TRUE
  /\ out' = <<>>
  /\ UNCHANGED <<impl, config, ixVars, vlVars, playing, websocket, rtVars, isConnected, isListening,
                 isSpeaking, mediaStream, mediaRecorder, sessionId,
                 conversationActive, sock, setupTimers, stream, rec, gum, blobs,
                 decoding>>

\* connect(), called by the continuation of initialize(), up to the pending
\* promise.  A throw inside it rejects the promise; initialize() reports that
\* with an error event and rethrows.
\* The address buildWebSocketUrl() builds, as a sequence of characters; the
\* text before the key is one element.
KeyChars(k) == IF k = "" THEN <<>> ELSE <<k>>
EncodeChar(c) == IF c = "+" THEN <<"%", "2", "B">> ELSE <<c>>
RECURSIVE EncodeURIComponent(_)
EncodeURIComponent(k) ==
  IF k = <<>> THEN <<>> ELSE EncodeChar(Head(k)) \o EncodeURIComponent(Tail(k))
WsUrl(c) ==
  IF impl = "part_001"
  THEN <<"wss://x.example.com/openai/realtime?api-version=2024-10-01-preview&deployment=d1&api-key=">>
       \o EncodeURIComponent(KeyChars(c.apiKey))
  ELSE <<"wss://x.example.com/openai/realtime?api-version=2024-10-01-preview&deployment=d1">>

\* String.prototype.replace(pattern, replacement) with a string pattern: the
\* first occurrence only
Occurs(u, pat, i) ==
  i + Len(pat) - 1 <= Len(u) /\ SubSeq(u, i, i + Len(pat) - 1) = pat
Contains(u, pat) == \E i \in 1..Len(u) : Occurs(u, pat, i)
Replace(u, pat, r) ==
  IF ~Contains(u, pat) THEN u
  ELSE LET i == CHOOSE j \in 1..Len(u) :
                    Occurs(u, pat, j) /\ \A h \in 1..(j - 1) : ~Occurs(u, pat, h)
       IN SubSeq(u, 1, i - 1) \o r \o SubSeq(u, i + Len(pat), Len(u))

\* What buildWebSocketUrl() and connect() write to the console
Log(name, text) == <<"log", name, text, 0>>
ConnectLogs ==
  (IF impl = "part_001"
   THEN <<Log("Built WebSocket URL",
              Replace(WsUrl(config), KeyChars(config.apiKey), <<"***">>))>>
   ELSE <<>>) \o
  <<Log("Connecting to Azure OpenAI Realtime API", WsUrl(config))>>

Connect ==
  /\ impl \in WsImpls
  /\ initializing > 0
  /\ Ran("connect")
  /\ initializing' = initializing - 1
  /\ IF ConnectThrows
     THEN /\ out' = <<Emit("error"), Throw("initialize")>>
          /\ UNCHANGED <<websocket, sock>>
     ELSE /\ \E s \in Sockets :
               /\ sock[s] = "unused"
               /\ \A t \in Sockets : t < s => sock[t] # "unused"
               /\ sock' = [sock EXCEPT ![s] = "connecting"]
               /\ websocket' = s
          /\ out' = ConnectLogs
  /\ UNCHANGED <<impl, config, ixVars, vlVars, playing, rtVars, isConnected, isListening, isSpeaking,
                 mediaStream, mediaRecorder, audioContext, sessionId,
                 conversationActive, setupTimers, stream, rec, gum, blobs,
                 decoding>>

\* The connect() promise of socket s is pending until its first open or error
\* event.
Pending(s) == sock[s] \in {"connecting", "aborting"}

\* websocket.onopen, then the continuation of initialize() that resolve()
\* releases.  part_001 also arms the 500 ms session-setup timer.
OnOpenOut(s) ==
  <<Emit("connected")>> \o
  (IF Pending(s) THEN <<Emit("initialized"), Emit("connected")>> ELSE <<>>)

OnOpen(s) ==
  /\ impl \in WsImpls
  /\ sock[s] = "connecting"
  /\ Ran("onopen")
  /\ sock' = [sock EXCEPT ![s] = "open"]
  /\ isConnected' = TRUE
  /\ setupTimers' = IF impl = "part_001" THEN setupTimers + 1 ELSE setupTimers
  /\ out' = OnOpenOut(s)
  /\ UNCHANGED <<impl, config, ixVars, vlVars, playing, initializing, websocket, rtVars, isListening, isSpeaking,
                 mediaStream, mediaRecorder, audioContext, sessionId,
                 conversationActive, stream, rec, gum, blobs,
                 decoding>>

\* websocket.onclose
OnCloseConnected == FALSE
OnCloseOut == <<Emit("disconnected")>>

\* websocket.onerror: the error event, reject(); a rejected connect() makes
\* initialize() emit a second error and rethrow.
OnErrorOut(s) ==
  <<Emit("error")>> \o
  (IF Pending(s) THEN <<Emit("error"), Throw("initialize")>> ELSE <<>>)

\* The browser fails the connection (refused, TLS, abnormal closure, or
\* close() before the handshake ended): error event, then close event.
OnFail(s) ==
  /\ impl \in WsImpls
  /\ sock[s] \in {"connecting", "open", "aborting"}
  /\ Ran("onerror+onclose")
  /\ sock' = [sock EXCEPT ![s] = "closed"]
  /\ isConnected' = OnCloseConnected
  /\ out' = OnErrorOut(s) \o OnCloseOut
  /\ UNCHANGED <<impl, config, ixVars, vlVars, playing, initializing, websocket, rtVars, isListening, isSpeaking,
                 mediaStream, mediaRecorder, audioContext, sessionId,
                 conversationActive, setupTimers, stream, rec, gum,
                 blobs, decoding>>

\* The closing handshake ends (the server closed, or answered our close()).
OnClose(s) ==
  /\ impl \in WsImpls
  /\ sock[s] \in {"open", "closing"}
  /\ Ran("onclose")
  /\ sock' = [sock EXCEPT ![s] = "closed"]
  /\ isConnected' = OnCloseConnected
  /\ out' = OnCloseOut
  /\ UNCHANGED <<impl, config, ixVars, vlVars, playing, initializing, websocket, rtVars, isListening, isSpeaking,
                 mediaStream, mediaRecorder, audioContext, sessionId,
                 conversationActive, setupTimers, stream,
                 rec, gum, blobs, decoding>>

\* sendSessionSetup(), run by the timer of part_001's onopen
SendSessionSetupOut ==
  IF websocket = NULL \/ ~isConnected THEN <<>>
  ELSE IF SendThrows(websocket) THEN <<Emit("error")>>
  ELSE SendOut(websocket, "session.update")

SetupTimer ==
  /\ setupTimers > 0
  /\ Ran("sendSessionSetup")
  /\ setupTimers' = setupTimers - 1
  /\ out' = SendSessionSetupOut
  /\ UNCHANGED <<impl, config, ixVars, vlVars, playing, initializing, fields, sock, stream, rec, gum, blobs,
                 decoding>>

\* ------------------------------------------------------- inbound frames
\* A frame is what event.data holds.  wire: a text frame, or a binary one
\* (a Blob, binaryType is never set).  val: what JSON.parse makes of the
\* text: "garbage" (a SyntaxError), null, a number, an object.  quoted: the
\* text is a JSON string whose content is that text again.  An object has a
\* type (or none) and its fields either at top level or under data.
TextTypes == {"session.transcript.interim", "session.transcript.final",
              "session.response.text.interim", "session.response.text.final"}
PlainTypes == {"session.updated", "session.ready", "session.ended",
               "session.response.audio_buffer.speech_started",
               "session.response.audio_buffer.speech_stopped",
               "session.audio_buffer.speech_started",
               "session.audio_buffer.speech_stopped",
               "error", "session.deleted"}
AudioType == "session.response.audio_buffer.committed"

Blank == [wire |-> "text", quoted |-> FALSE, val |-> "object", type |-> Undefined,
          data |-> FALSE, session_id |-> Undefined, id |-> Undefined,
          text |-> Undefined, content |-> Undefined, audio |-> Undefined]

MalformedFrames ==
  { [Blank EXCEPT !.wire = "binary", !.val = "garbage"] } \cup
  { [Blank EXCEPT !.quoted = q, !.val = v] :
       q \in BOOLEAN, v \in {"garbage", "null", "number"} } \cup
  { [Blank EXCEPT !.data = d] : d \in BOOLEAN }

CreatedFrames ==
  { [Blank EXCEPT !.type = "session.created", !.quoted = q, !.data = d,
                  !.session_id = a, !.id = b] :
       q \in BOOLEAN, d \in BOOLEAN, a \in {Undefined, "abc123"},
       b \in {Undefined, "sess_9"} }

TextFrames ==
  { [Blank EXCEPT !.type = t, !.data = d, !.text = a, !.content = b] :
       t \in TextTypes, d \in BOOLEAN, a \in {Undefined, "hello"},
       b \in {Undefined, "hi"} }

AudioFrames ==
  { [Blank EXCEPT !.type = AudioType, !.data = d, !.audio = a] :
       d \in BOOLEAN, a \in {Undefined, "", "UklGRg==", "not base64!"} }

PlainFrames == { [Blank EXCEPT !.type = t, !.data = d] : t \in PlainTypes, d \in BOOLEAN }

Frames == MalformedFrames \cup CreatedFrames \cup TextFrames \cup AudioFrames
          \cup PlainFrames

\* The frames that change what the client holds
ControlFrames ==
  { [Blank EXCEPT !.type = "session.created", !.session_id = "abc123"],
    [Blank EXCEPT !.type = "session.ended"] }

\* A frame that JSON.parse turns into an object with a type
\* JavaScript a || b on string-or-undefined operands
Or(a, b) == IF a # Undefined /\ a # "" THEN a ELSE b
Truthy(a) == a # Undefined /\ a # "" /\ a # Null

\* atob(): throws on text that is not base64
AtobThrows(a) == a = "not base64!"

\* What a decoder does with one frame: ex (an exception leaves the function),
\* error (an error event is emitted), ev (the event emitted, with its
\* argument), the fields it assigns, and play (audio goes to decodeAudioData).
NoFx == [ex |-> FALSE, error |-> FALSE, ev |-> "", arg |-> "",
         sessionId |-> sessionId, conversationActive |-> conversationActive,
         isSpeaking |-> isSpeaking, play |-> FALSE]

Event(name, a) == [NoFx EXCEPT !.ev = name, !.arg = a]

\* handleAudioBuffer() and playAudio() up to the await of decodeAudioData
HandleAudioBuffer(fr) ==
  IF ~Truthy(fr.audio) THEN NoFx
  ELSE IF AtobThrows(fr.audio) \/ ~audioContext THEN [NoFx EXCEPT !.error = TRUE]
  ELSE [NoFx EXCEPT !.play = TRUE]

\* part_001 handleMessage(message), lines 252-367
HandleMessage(fr) ==
  IF fr.val = "null" THEN [NoFx EXCEPT !.ex = TRUE]     \* message.type of null
  ELSE IF fr.val # "object" \/ fr.type = Undefined THEN NoFx
  ELSE CASE fr.type = "session.created" ->
              LET sid == Or(fr.session_id, fr.id) IN
              IF Truthy(sid) THEN [Event("sessionCreated", sid) EXCEPT !.sessionId = sid]
              ELSE NoFx
         [] fr.type = "session.updated" -> Event("sessionUpdated", "messageData")
         [] fr.type = "session.ready"   -> Event("sessionReady", "")
         [] fr.type = "session.ended"   ->
              [Event("sessionEnded", "") EXCEPT !.conversationActive = FALSE]
         [] fr.type = "session.transcript.interim" ->
              IF Truthy(Or(fr.text, fr.content))
              THEN Event("transcriptInterim", Or(fr.text, fr.content)) ELSE NoFx
         [] fr.type = "session.transcript.final" ->
              IF Truthy(Or(fr.text, fr.content))
              THEN Event("transcriptFinal", Or(fr.text, fr.content)) ELSE NoFx
         [] fr.type = "session.response.text.interim" ->
              IF Truthy(Or(fr.text, fr.content))
              THEN Event("responseInterim", Or(fr.text, fr.content)) ELSE NoFx
         [] fr.type = "session.response.text.final" ->
              IF Truthy(Or(fr.text, fr.content))
              THEN Event("responseFinal", Or(fr.text, fr.content)) ELSE NoFx
         [] fr.type = "session.response.audio_buffer.speech_started" ->
              [Event("speechStarted", "") EXCEPT !.isSpeaking = TRUE]
         [] fr.type = "session.response.audio_buffer.speech_stopped" ->
              [Event("speechStopped", "") EXCEPT !.isSpeaking = FALSE]
         [] fr.type = AudioType -> HandleAudioBuffer(fr)
         [] fr.type = "session.audio_buffer.speech_started" -> Event("userSpeechStarted", "")
         [] fr.type = "session.audio_buffer.speech_stopped" -> Event("userSpeechStopped", "")
         [] fr.type = "error" -> [NoFx EXCEPT !.error = TRUE]
         [] OTHER -> NoFx

\* onmessage with no outer try / catch: what handleMessage throws leaves it
OnMessageFxUncaught(fr) ==
  IF fr.wire = "binary" \/ fr.val = "garbage" THEN NoFx ELSE HandleMessage(fr)

\* part_001 websocket.onmessage, lines 145-176: JSON.parse, a second
\* JSON.parse of a string, handleMessage; the outer catch emits an error.
OnMessageFx(fr) ==
  IF fr.wire = "binary" THEN NoFx                        \* "[object Blob]"
  ELSE IF fr.val = "garbage" THEN NoFx                   \* logged, return
  ELSE LET fx == HandleMessage(fr) IN
       IF fx.ex THEN [NoFx EXCEPT !.error = TRUE] ELSE fx

\* ChatInput handleMessage(message), lines 271-347: fields are read from
\* message.data with no check that data is there.
HandleMessage0(fr) ==
  IF fr.val = "null" THEN [NoFx EXCEPT !.ex = TRUE]
  ELSE IF fr.val # "object" \/ fr.quoted \/ fr.type = Undefined THEN NoFx
  ELSE CASE fr.type = "session.created" ->
              IF ~fr.data THEN [NoFx EXCEPT !.ex = TRUE]
              ELSE [Event("sessionCreated", fr.session_id) EXCEPT
                      !.sessionId = fr.session_id]
         [] fr.type = "session.updated" -> Event("sessionUpdated", "data")
         [] fr.type = "session.ended"   ->
              [Event("sessionEnded", "") EXCEPT !.conversationActive = FALSE]
         [] fr.type = "session.transcript.interim" ->
              IF ~fr.data THEN [NoFx EXCEPT !.ex = TRUE]
              ELSE Event("transcriptInterim", fr.text)
         [] fr.type = "session.transcript.final" ->
              IF ~fr.data THEN [NoFx EXCEPT !.ex = TRUE]
              ELSE Event("transcriptFinal", fr.text)
         [] fr.type = "session.response.text.interim" ->
              IF ~fr.data THEN [NoFx EXCEPT !.ex = TRUE]
              ELSE Event("responseInterim", fr.text)
         [] fr.type = "session.response.text.final" ->
              IF ~fr.data THEN [NoFx EXCEPT !.ex = TRUE]
              ELSE Event("responseFinal", fr.text)
         [] fr.type = "session.response.audio_buffer.speech_started" ->
              [Event("speechStarted", "") EXCEPT !.isSpeaking = TRUE]
         [] fr.type = "session.response.audio_buffer.speech_stopped" ->
              [Event("speechStopped", "") EXCEPT !.isSpeaking = FALSE]
         [] fr.type = AudioType ->
              IF ~fr.data THEN [NoFx EXCEPT !.error = TRUE]  \* caught inside
              ELSE HandleAudioBuffer(fr)
         [] fr.type = "session.audio_buffer.speech_started" -> Event("userSpeechStarted", "")
         [] fr.type = "session.audio_buffer.speech_stopped" -> Event("userSpeechStopped", "")
         [] fr.type = "error" -> [NoFx EXCEPT !.error = TRUE]
         [] OTHER -> NoFx

\* ChatInput websocket.onmessage, lines 228-236: one JSON.parse and
\* handleMessage in the same try; the catch emits an error.
OnMessageFx0(fr) ==
  IF fr.wire = "binary" \/ (fr.val = "garbage" /\ ~fr.quoted)
  THEN [NoFx EXCEPT !.error = TRUE]
  ELSE IF fr.quoted THEN NoFx                            \* a string: no type
  ELSE LET fx == HandleMessage0(fr) IN
       IF fx.ex THEN [NoFx EXCEPT !.error = TRUE] ELSE fx

DecoderFx(fr) == IF impl = "part_001" THEN OnMessageFx(fr) ELSE OnMessageFx0(fr)

\* The entries of out a decoded frame leaves
FxOut(fx) ==
  (IF fx.ev # "" THEN <<EmitArg(fx.ev, fx.arg)>> ELSE <<>>) \o
  (IF fx.error THEN <<Emit("error")>> ELSE <<>>) \o
  (IF fx.ex THEN <<Throw("onmessage")>> ELSE <<>>)

\* What a frame is to the decoder: text that JSON.parse rejects (or a Blob),
\* JSON that is no message (null, a number, an object with no type), a
\* message.
Undecodable(fr) == fr.wire = "binary" \/ fr.val = "garbage"
OnMessageOp(fr) ==
  IF Undecodable(fr) THEN "onmessage:undecodable"
  ELSE IF fr \in MalformedFrames THEN "onmessage:malformed"
  ELSE "onmessage"
OnMessageOps == {"onmessage", "onmessage:malformed", "onmessage:undecodable"}

\* websocket.onmessage.  The browser delivers messages of an OPEN socket only.
OnMessage(s, fr) ==
  /\ impl \in WsImpls
  /\ sock[s] = "open"
  /\ Ran(OnMessageOp(fr))
  /\ LET fx == DecoderFx(fr) IN
       /\ sessionId' = fx.sessionId
       /\ conversationActive' = fx.conversationActive
       /\ isSpeaking' = fx.isSpeaking
       /\ fx.play => decoding < MaxDecoding
       /\ decoding' = IF fx.play THEN decoding + 1 ELSE decoding
       /\ out' = FxOut(fx)
  /\ UNCHANGED <<impl, config, ixVars, vlVars, playing, initializing, websocket, rtVars, isConnected, isListening,
                 mediaStream, mediaRecorder, audioContext, sock, setupTimers, stream, rec, gum, blobs>>

\* playAudio() after decodeAudioData settles: audioPlayed, or an error event
PlayAudioDone(ok) ==
  /\ decoding > 0
  /\ ok => playing < MaxPlaying
  /\ Ran("playAudio")
  /\ decoding' = decoding - 1
  /\ playing' = IF ok THEN playing + 1 ELSE playing      \* source.start()
  /\ out' = <<Emit(IF ok THEN "audioPlayed" ELSE "error")>>
  /\ UNCHANGED <<impl, config, ixVars, vlVars, initializing, fields, sock, setupTimers, stream, rec,
                 gum, blobs>>

\* The buffer a source was started with has been rendered to its end
SourceEnded ==
  /\ playing > 0
  /\ Ran("ended")
  /\ playing' = playing - 1
  /\ out' = <<>>
  /\ UNCHANGED <<impl, config, ixVars, vlVars, initializing, fields, sock, setupTimers, stream, rec,
                 gum, blobs, decoding>>

\* ------------------------------------------------------ capture pipeline
\* startListening() up to the await of getUserMedia
StartListeningGuard == isConnected /\ websocket # NULL

StartListening ==
  /\ impl \in WsImpls
  /\ Called("startListening")
  /\ IF StartListeningGuard
     THEN /\ gum < MaxGum
          /\ gum' = gum + 1
          /\ out' = <<>>
     ELSE /\ gum' = gum
          /\ out' = <<Emit("error"), Throw("startListening")>>
  /\ UNCHANGED <<impl, config, ixVars, vlVars, playing, initializing, fields, sock, setupTimers, stream, rec,
                 blobs, decoding>>

\* getUserMedia rejects (permission denied, no device): the catch of
\* startListening() emits an error and rethrows.
GumDeniedListeningSet == TRUE      \* a catch that went on to listen
GumDeniedListening == isListening
GumDeniedOut == <<Emit("error"), Throw("startListening")>>

GumDenied ==
  /\ impl \in WsImpls
  /\ gum > 0
  /\ Ran("getUserMedia:denied")
  /\ gum' = gum - 1
  /\ isListening' = GumDeniedListening
  /\ out' = GumDeniedOut
  /\ UNCHANGED <<impl, config, ixVars, vlVars, playing, initializing, websocket, rtVars, isConnected, isSpeaking,
                 mediaStream, mediaRecorder, audioContext, sessionId,
                 conversationActive, sock, setupTimers,
                 stream, rec, blobs, decoding>>

\* getUserMedia resolves with stream m: the rest of startListening() and
\* setupAudioProcessing().  recOk: new MediaRecorder() accepts the mime type.
GumGranted(m, recOk) ==
  /\ impl \in WsImpls
  /\ gum > 0
  /\ stream[m] = "unused"
  /\ \A n \in Streams : n < m => stream[n] # "unused"
  /\ Ran("getUserMedia:granted")
  /\ gum' = gum - 1
  /\ stream' = [stream EXCEPT ![m] = "live"]
  /\ mediaStream' = m
  /\ IF audioContext /\ recOk
     THEN /\ rec' = [rec EXCEPT ![m] = "recording"]
          /\ mediaRecorder' = m
          /\ isListening' = TRUE
          /\ conversationActive' = TRUE
          /\ out' = <<Acquire(m), Emit("listeningStarted")>>
     ELSE /\ out' = <<Acquire(m), Emit("error"), Throw("startListening")>>
          /\ UNCHANGED <<rec, mediaRecorder, isListening, conversationActive>>
  /\ UNCHANGED <<impl, config, ixVars, vlVars, playing, initializing, websocket, rtVars, isConnected, isSpeaking,
                 audioContext, sessionId, sock,
                 setupTimers, blobs, decoding>>

\* processAudioData() up to the await of audioBlob.arrayBuffer()
ProcessAudioDataGuard == websocket # NULL /\ isConnected

\* mediaRecorder.ondataavailable while recording (every 100 ms); empty
\* chunks are skipped by the handler.
DataAvailable(m, size) ==
  /\ impl \in WsImpls
  /\ rec[m] = "recording"
  /\ Ran("ondataavailable")
  /\ out' = <<>>
  /\ IF size > 0 /\ ProcessAudioDataGuard
     THEN blobs < MaxPending /\ blobs' = blobs + 1
     ELSE blobs' = blobs
  /\ UNCHANGED <<impl, config, ixVars, vlVars, playing, initializing, fields, sock, setupTimers, stream, rec,
                 gum, decoding>>

\* The last dataavailable of a recorder that was stopped
RecorderStopped(m, size) ==
  /\ impl \in WsImpls
  /\ rec[m] = "flushing"
  /\ Ran("ondataavailable:last")
  /\ out' = <<>>
  /\ rec' = [rec EXCEPT ![m] = "inactive"]
  /\ IF size > 0 /\ ProcessAudioDataGuard
     THEN blobs < MaxPending /\ blobs' = blobs + 1
     ELSE blobs' = blobs
  /\ UNCHANGED <<impl, config, ixVars, vlVars, playing, initializing, fields, sock, setupTimers, stream, gum,
                 decoding>>

\* processAudioData() after the await: this.websocket.send(...) in a try
\* whose catch emits an error.
ProcessAudioDataOut ==
  IF websocket = NULL \/ SendThrows(websocket)
  THEN <<Emit("error")>>
  ELSE SendOut(websocket, "audio")

BlobReady ==
  /\ impl \in WsImpls
  /\ blobs > 0
  /\ Ran("processAudioData")
  /\ blobs' = blobs - 1
  /\ out' = ProcessAudioDataOut
  /\ UNCHANGED <<impl, config, ixVars, vlVars, playing, initializing, fields, sock, setupTimers, stream, rec,
                 gum, decoding>>

\* stopListening(): the recorder and the tracks it stops, and what it emits
StopListeningFx ==
  LET stopRec == mediaRecorder # NULL /\ rec[mediaRecorder] = "recording"
      r1 == IF stopRec THEN [rec EXCEPT ![mediaRecorder] = "flushing"] ELSE rec
      t  == IF mediaStream # NULL THEN StopTracks(stream, r1, mediaStream)
            ELSE [stream |-> stream, rec |-> r1]
  IN [stream |-> t.stream, rec |-> t.rec,
      out |-> (IF stopRec THEN <<<<"stop", "recorder", "", mediaRecorder>>>> ELSE <<>>) \o
              (IF mediaStream # NULL THEN <<<<"stop", "tracks", "", mediaStream>>>> ELSE <<>>) \o
              <<Emit("listeningStopped")>>]

StopListening ==
  /\ impl \in WsImpls
  /\ Called("stopListening")
  /\ stream' = StopListeningFx.stream
  /\ rec' = StopListeningFx.rec
  /\ mediaStream' = NULL
  /\ isListening' = FALSE
  /\ out' = StopListeningFx.out
  /\ UNCHANGED <<impl, config, ixVars, vlVars, playing, initializing, websocket, rtVars, isConnected, isSpeaking,
                 mediaRecorder, audioContext, sessionId, conversationActive, sock, setupTimers, gum, blobs, decoding>>

\* sendTextMessage(text)
SendTextMessage ==
  /\ impl \in WsImpls
  /\ Called("sendTextMessage")
  /\ out' = IF websocket = NULL \/ ~isConnected \/ SendThrows(websocket)
            THEN <<Emit("error"), Throw("sendTextMessage")>>
            ELSE SendOut(websocket, "text")
  /\ UNCHANGED <<impl, config, ixVars, vlVars, playing, initializing, fields, sock, setupTimers, stream, rec,
                 gum, blobs, decoding>>

\* endSession(): the end-of-session message
EndSessionOut ==
  IF websocket = NULL \/ ~isConnected THEN <<>>
  ELSE IF SendThrows(websocket) THEN <<Emit("error")>>
  ELSE SendOut(websocket, "session.end")

EndSession ==
  /\ impl \in WsImpls
  /\ Called("endSession")
  /\ out' = EndSessionOut
  /\ UNCHANGED <<impl, config, ixVars, vlVars, playing, initializing, fields, sock, setupTimers, stream, rec,
                 gum, blobs, decoding>>

\* disconnect(): what it does, in order.  stopListening() and endSession()
\* have no suspension of their own, so the awaits on them settle at once and
\* the whole of disconnect() runs before any callback.
DisconnectEndsSession == conversationActive

DisconnectOut ==
  (IF isListening THEN StopListeningFx.out ELSE <<>>) \o
  (IF DisconnectEndsSession THEN EndSessionOut ELSE <<>>) \o
  (IF websocket # NULL THEN <<Closed(websocket)>> ELSE <<>>) \o
  <<Emit("disconnected")>>

Disconnect ==
  /\ impl \in WsImpls
  /\ Called("disconnect")
  /\ stream' = IF isListening THEN StopListeningFx.stream ELSE stream
  /\ rec' = IF isListening THEN StopListeningFx.rec ELSE rec
  /\ mediaStream' = IF isListening THEN NULL ELSE mediaStream
  /\ isListening' = FALSE
  /\ sock' = IF websocket # NULL
             THEN [sock EXCEPT ![websocket] = CloseState(@)] ELSE sock
  /\ websocket' = NULL
  /\ isConnected' = FALSE
  /\ conversationActive' = FALSE
  /\ sessionId' = Null
  /\ out' = DisconnectOut
  /\ UNCHANGED <<impl, config, ixVars, vlVars, playing, initializing, rtVars, isSpeaking, mediaRecorder,
                 audioContext, setupTimers, gum, blobs, decoding>>

\* =========================================================================
\* realtimeService.ts: RealtimeService over rt-client's LowLevelRTClient
\* =========================================================================
\* The library is not part of the repository.  What the model takes from it:
\* new LowLevelRTClient() opens a socket; send() waits for the socket to be
\* open and fails when the connection failed; messages() yields the parsed
\* messages of the socket until it closes.

ChunkBytes == 4800           \* "Send in 4800 byte chunks"
BlobSizes  == {2400, 4800}   \* bytes of one 100 ms recorder chunk

\* initialize(): new URL(endpoint), new LowLevelRTClient(...)
Initialize3 ==
  /\ impl = "realtimeService"
  /\ Called("initialize")
  /\ IF config.endpoint = ""
     THEN /\ out' = <<Throw("initialize")>>
          /\ UNCHANGED <<client, sock>>
     ELSE /\ \E s \in Sockets :
               /\ sock[s] = "unused"
               /\ \A t \in Sockets : t < s => sock[t] # "unused"
               /\ sock' = [sock EXCEPT ![s] = "connecting"]
               /\ client' = s
          /\ out' = <<>>
  /\ UNCHANGED <<impl, config, ixVars, vlVars, playing, initializing, wsVars, audioBuffer, sending, loop, isConnected,
                 isListening, mediaStream, mediaRecorder, stream, rec, gum, blobs>>

\* connect() after client.send(configMessage) resolved:
\* handleRealtimeMessages() starts reading what this.client is by then,
\* isConnected, connected.
ConnectedLoop == IF client # NULL THEN loop \cup {client} ELSE loop
ConnectedOut(s) == SendOut(s, "session.update") \o <<Emit("connected")>>
ConnectFailedOut == <<Emit("error"), Throw("connect")>>

\* connect() up to await this.client.send(configMessage)
Connect3 ==
  /\ impl = "realtimeService"
  /\ Called("connect")
  /\ IF client = NULL
     THEN /\ out' = ConnectFailedOut
          /\ UNCHANGED sending
     ELSE /\ client \notin sending
          /\ sending' = sending \cup {client}
          /\ out' = <<>>
  /\ UNCHANGED <<impl, config, ixVars, vlVars, playing, initializing, wsVars, client, audioBuffer, loop,
                 isConnected, isListening, mediaStream, mediaRecorder, sock,
                 stream, rec, gum, blobs>>

\* The awaited send() on socket s settles.  It resolves on an open socket and
\* waits for a connecting one; on a socket that close() was called on
\* meanwhile the library may resolve (ok) or reject.
ConnectSent3(s, ok) ==
  /\ impl = "realtimeService"
  /\ s \in sending
  /\ sock[s] \in {"open", "closing", "closed"}
  /\ sock[s] = "open" => ok
  /\ Ran("connect:sent")
  /\ sending' = sending \ {s}
  /\ IF ok
     THEN /\ loop' = ConnectedLoop
          /\ isConnected' = TRUE
          /\ out' = ConnectedOut(s)
     ELSE /\ out' = ConnectFailedOut
          /\ UNCHANGED <<loop, isConnected>>
  /\ UNCHANGED <<impl, config, ixVars, vlVars, playing, initializing, wsVars, client, audioBuffer,
                 isListening, mediaStream, mediaRecorder, sock, stream, rec, gum,
                 blobs>>

\* The socket opens.
OnOpen3(s) ==
  /\ impl = "realtimeService"
  /\ sock[s] = "connecting"
  /\ Ran("onopen")
  /\ sock' = [sock EXCEPT ![s] = "open"]
  /\ out' = <<>>
  /\ UNCHANGED <<impl, config, ixVars, vlVars, playing, initializing, wsVars, rtVars, isConnected,
                 isListening, mediaStream, mediaRecorder, stream, rec, gum, blobs>>

\* The connection fails: a waiting connect() rejects; a reading loop ends,
\* with an error event when messages() throws (loopErr).
OnFail3(s, loopErr) ==
  /\ impl = "realtimeService"
  /\ sock[s] \in {"connecting", "open", "aborting"}
  /\ Ran("onerror+onclose")
  /\ sock' = [sock EXCEPT ![s] = "closed"]
  /\ sending' = sending \ {s}
  /\ loop' = loop \ {s}
  /\ out' = (IF s \in sending THEN ConnectFailedOut ELSE <<>>) \o
            (IF s \in loop /\ loopErr THEN <<Emit("error")>> ELSE <<>>)
  /\ UNCHANGED <<impl, config, ixVars, vlVars, playing, initializing, wsVars, client, audioBuffer, isConnected,
                 isListening, mediaStream, mediaRecorder, stream, rec, gum, blobs>>

\* The socket closes (the server ended it, or close() completed): the loop
\* of handleRealtimeMessages() ends; nothing else is told.
OnClose3(s) ==
  /\ impl = "realtimeService"
  /\ sock[s] \in {"open", "closing"}
  /\ Ran("onclose")
  /\ sock' = [sock EXCEPT ![s] = "closed"]
  /\ loop' = loop \ {s}
  /\ out' = <<>>
  /\ UNCHANGED <<impl, config, ixVars, vlVars, playing, initializing, wsVars, client, audioBuffer, sending, isConnected,
                 isListening, mediaStream, mediaRecorder, stream, rec, gum, blobs>>

\* One message of the for-await loop of handleRealtimeMessages(), by type
HandleRealtimeMessage(type, badAudio) ==
  CASE type = "session.created" -> <<EmitArg("sessionCreated", "message")>>
    [] type = "response.audio_transcript.delta" -> <<EmitArg("responseInterim", "delta")>>
    [] type = "response.audio.delta" ->
         IF badAudio THEN <<>> ELSE <<Emit("audioPlayed")>>
    [] type = "input_audio_buffer.speech_started" -> <<Emit("userSpeechStarted")>>
    [] type = "input_audio_buffer.speech_stopped" -> <<Emit("userSpeechStopped")>>
    [] type = "conversation.item.input_audio_transcription.completed" ->
         <<EmitArg("transcriptFinal", "transcript")>>
    [] type = "response.done" -> <<Emit("responseFinal")>>
    [] type = "error" -> <<EmitArg("error", "message")>>
    [] OTHER -> <<>>

OnMessage3(s, type, badAudio) ==
  /\ impl = "realtimeService"
  /\ sock[s] = "open"
  /\ s \in loop
  /\ Ran("onmessage")
  /\ out' = HandleRealtimeMessage(type, badAudio)
  /\ LET plays == type = "response.audio.delta" /\ ~badAudio IN
       /\ plays => playing < MaxPlaying
       /\ playing' = IF plays THEN playing + 1 ELSE playing   \* source.start()
  /\ UNCHANGED <<impl, config, ixVars, vlVars, initializing, fields, sock, setupTimers, stream, rec, gum,
                 blobs, decoding>>

\* startListening() up to the await of getUserMedia
StartListening3 ==
  /\ impl = "realtimeService"
  /\ Called("startListening")
  /\ IF isConnected
     THEN /\ gum < MaxGum
          /\ gum' = gum + 1
          /\ out' = <<>>
     ELSE /\ gum' = gum
          /\ out' = <<Emit("error"), Throw("startListening")>>
  /\ UNCHANGED <<impl, config, ixVars, vlVars, playing, initializing, fields, sock, setupTimers, stream, rec, blobs,
                 decoding>>

GumDenied3 ==
  /\ impl = "realtimeService"
  /\ gum > 0
  /\ Ran("getUserMedia:denied")
  /\ gum' = gum - 1
  /\ isListening' = GumDeniedListening
  /\ out' = GumDeniedOut
  /\ UNCHANGED <<impl, config, ixVars, vlVars, playing, initializing, wsVars, rtVars, isConnected, mediaStream,
                 mediaRecorder, sock, stream, rec, blobs>>

\* getUserMedia resolves with stream m: the recorder is made and started.
GumGranted3(m, recOk) ==
  /\ impl = "realtimeService"
  /\ gum > 0
  /\ stream[m] = "unused"
  /\ \A n \in Streams : n < m => stream[n] # "unused"
  /\ Ran("getUserMedia:granted")
  /\ gum' = gum - 1
  /\ stream' = [stream EXCEPT ![m] = "live"]
  /\ mediaStream' = m
  /\ IF recOk
     THEN /\ rec' = [rec EXCEPT ![m] = "recording"]
          /\ mediaRecorder' = m
          /\ isListening' = TRUE
          /\ out' = <<Acquire(m), Emit("listeningStarted")>>
     ELSE /\ out' = <<Acquire(m), Emit("error"), Throw("startListening")>>
          /\ UNCHANGED <<rec, mediaRecorder, isListening>>
  /\ UNCHANGED <<impl, config, ixVars, vlVars, playing, initializing, wsVars, rtVars, isConnected, sock, blobs>>

\* audioRecorder.ondataavailable: processAudioData() awaits arrayBuffer()
\* with no check before it.
DataAvailable3(m, size) ==
  /\ impl = "realtimeService"
  /\ rec[m] = "recording"
  /\ Ran("ondataavailable")
  /\ out' = <<>>
  /\ IF size > 0 THEN blobs < MaxPending /\ blobs' = blobs + 1 ELSE blobs' = blobs
  /\ UNCHANGED <<impl, config, ixVars, vlVars, playing, initializing, fields, sock, setupTimers, stream, rec, gum,
                 decoding>>

RecorderStopped3(m, size) ==
  /\ impl = "realtimeService"
  /\ rec[m] = "flushing"
  /\ Ran("ondataavailable:last")
  /\ out' = <<>>
  /\ rec' = [rec EXCEPT ![m] = "inactive"]
  /\ IF size > 0 THEN blobs < MaxPending /\ blobs' = blobs + 1 ELSE blobs' = blobs
  /\ UNCHANGED <<impl, config, ixVars, vlVars, playing, initializing, fields, sock, setupTimers, stream, gum, decoding>>

\* processAudioData() after the await: the bytes join audioBuffer; once 4800
\* are there they are cut off, and sent if the client is listening.
ProcessAudioDataSends == client # NULL /\ isListening

ProcessAudioData3(size) ==
  /\ impl = "realtimeService"
  /\ blobs > 0
  /\ Ran("processAudioData")
  /\ blobs' = blobs - 1
  /\ IF audioBuffer + size >= ChunkBytes
     THEN /\ audioBuffer' = audioBuffer + size - ChunkBytes
          /\ out' = IF ProcessAudioDataSends THEN SendOut(client, "audio") ELSE <<>>
     ELSE /\ audioBuffer' = audioBuffer + size
          /\ out' = <<>>
  /\ UNCHANGED <<impl, config, ixVars, vlVars, playing, initializing, wsVars, client, sending, loop, isConnected,
                 isListening, mediaStream, mediaRecorder, sock, stream, rec, gum>>

\* stopListening()
StopListeningFx3 ==
  LET stopRec == mediaRecorder # NULL /\ rec[mediaRecorder] \in {"recording", "flushing"}
      r1 == IF mediaRecorder # NULL /\ rec[mediaRecorder] = "recording"
            THEN [rec EXCEPT ![mediaRecorder] = "flushing"] ELSE rec
      t  == IF mediaStream # NULL THEN StopTracks(stream, r1, mediaStream)
            ELSE [stream |-> stream, rec |-> r1]
  IN [stream |-> t.stream, rec |-> t.rec,
      out |-> (IF stopRec THEN <<<<"stop", "recorder", "", mediaRecorder>>>> ELSE <<>>) \o
              (IF mediaStream # NULL THEN <<<<"stop", "tracks", "", mediaStream>>>> ELSE <<>>) \o
              <<Emit("listeningStopped")>>]

StopListening3 ==
  /\ impl = "realtimeService"
  /\ Called("stopListening")
  /\ stream' = StopListeningFx3.stream
  /\ rec' = StopListeningFx3.rec
  /\ mediaStream' = NULL
  /\ mediaRecorder' = NULL
  /\ isListening' = FALSE
  /\ out' = StopListeningFx3.out
  /\ UNCHANGED <<impl, config, ixVars, vlVars, playing, initializing, wsVars, rtVars, isConnected, sock, gum, blobs>>

\* sendTextMessage(text)
SendTextMessage3 ==
  /\ impl = "realtimeService"
  /\ Called("sendTextMessage")
  /\ out' = IF client = NULL \/ ~isConnected
            THEN <<Emit("error"), Throw("sendTextMessage")>>
            ELSE SendOut(client, "text")
  /\ UNCHANGED <<impl, config, ixVars, vlVars, playing, initializing, fields, sock, setupTimers, stream, rec, gum,
                 blobs, decoding>>

\* disconnect(): what it does, in order
DisconnectOut3 ==
  (IF isListening THEN StopListeningFx3.out ELSE <<>>) \o
  (IF client # NULL THEN <<Closed(client)>> ELSE <<>>) \o
  <<Emit("disconnected")>>

Disconnect3 ==
  /\ impl = "realtimeService"
  /\ Called("disconnect")
  /\ stream' = IF isListening THEN StopListeningFx3.stream ELSE stream
  /\ rec' = IF isListening THEN StopListeningFx3.rec ELSE rec
  /\ mediaStream' = IF isListening THEN NULL ELSE mediaStream
  /\ mediaRecorder' = IF isListening THEN NULL ELSE mediaRecorder
  /\ isListening' = FALSE
  /\ sock' = IF client # NULL THEN [sock EXCEPT ![client] = CloseState(@)] ELSE sock
  /\ client' = NULL
  /\ isConnected' = FALSE
  /\ out' = DisconnectOut3
  /\ UNCHANGED <<impl, config, ixVars, vlVars, playing, initializing, wsVars, audioBuffer, sending, loop, gum, blobs>>

\* ------------------------------------------------------------------- Next
\* The public methods of the WebSocket versions, callable at any time
CallsWs ==
  \/ Initialize
  \/ StartListening
  \/ StopListening
  \/ SendTextMessage
  \/ EndSession
  \/ Disconnect

\* Their callbacks and continuations.  Continuations of initialize() are
\* microtasks; they run before any callback does.
TasksWs ==
  \/ \E s \in Sockets : OnOpen(s)
  \/ \E s \in Sockets : OnFail(s)
  \/ \E s \in Sockets : OnClose(s)
  \/ SetupTimer
  \/ \E s \in Sockets, fr \in ControlFrames : OnMessage(s, fr)
  \/ GumDenied
  \/ \E m \in Streams, recOk \in BOOLEAN : GumGranted(m, recOk)
  \/ \E m \in Streams, size \in {0, 1} : DataAvailable(m, size)
  \/ \E m \in Streams, size \in {0, 1} : RecorderStopped(m, size)
  \/ BlobReady

NextWs == CallsWs \/ Connect \/ (initializing = 0 /\ TasksWs)

NextRt ==
  \/ Initialize3
  \/ Connect3
  \/ \E s \in Sockets, ok \in BOOLEAN : ConnectSent3(s, ok)
  \/ \E s \in Sockets : OnOpen3(s)
  \/ \E s \in Sockets, loopErr \in BOOLEAN : OnFail3(s, loopErr)
  \/ \E s \in Sockets : OnClose3(s)
  \/ \E s \in Sockets, type \in {"session.created", "error"} :
        OnMessage3(s, type, FALSE)
  \/ StartListening3
  \/ GumDenied3
  \/ \E m \in Streams, recOk \in BOOLEAN : GumGranted3(m, recOk)
  \/ \E m \in Streams, size \in {0, 1} : DataAvailable3(m, size)
  \/ \E m \in Streams, size \in {0, 1} : RecorderStopped3(m, size)
  \/ \E size \in BlobSizes : ProcessAudioData3(size)
  \/ StopListening3
  \/ SendTextMessage3
  \/ Disconnect3

Next == NextWs \/ NextRt

Spec == Init /\ [][Next]_vars

\* ---------------------------------------------------------------- decoder
\* The two onmessage decoders, on every kind of frame, with one connection
\* around them and no capture.
InitDecoder ==
  /\ impl \in WsImpls
  /\ config \in {c \in Configs : ValidConfig(c)}
  /\ InitFields

\* no transport was created yet
Fresh == \A s \in Sockets : sock[s] = "unused"

NextDecoder ==
  \/ Fresh /\ Initialize
  \/ Connect
  \/ Disconnect
  \/ /\ initializing = 0
     /\ \/ \E s \in Sockets : OnOpen(s)
        \/ \E s \in Sockets : OnFail(s)
        \/ \E s \in Sockets : OnClose(s)
        \/ SetupTimer
        \/ \E s \in Sockets, fr \in Frames : OnMessage(s, fr)
        \/ \E ok \in BOOLEAN : PlayAudioDone(ok)
        \/ SourceEnded

SpecDecoder == InitDecoder /\ [][NextDecoder]_vars

\* ---------------------------------------------------------------- capture
\* The capture pipeline of both transports on one connection per client.
InitCapture ==
  /\ impl \in {"part_001", "realtimeService"}
  /\ config \in {c \in Configs : ValidConfig(c)}
  /\ InitFields

NextCapture ==
  \/ Fresh /\ initializing = 0 /\ Initialize
  \/ Connect
  \/ StartListening
  \/ StopListening
  \/ Disconnect
  \/ /\ initializing = 0
     /\ \/ \E s \in Sockets : OnOpen(s)
        \/ \E s \in Sockets : OnClose(s)
        \/ GumDenied
        \/ \E m \in Streams, recOk \in BOOLEAN : GumGranted(m, recOk)
        \/ \E m \in Streams, size \in {0, 1} : DataAvailable(m, size)
        \/ \E m \in Streams, size \in {0, 1} : RecorderStopped(m, size)
        \/ BlobReady
  \/ Fresh /\ Initialize3
  \/ Connect3
  \/ \E s \in Sockets, ok \in BOOLEAN : ConnectSent3(s, ok)
  \/ \E s \in Sockets : OnOpen3(s)
  \/ \E s \in Sockets : OnClose3(s)
  \/ StartListening3
  \/ GumDenied3
  \/ \E m \in Streams, recOk \in BOOLEAN : GumGranted3(m, recOk)
  \/ \E m \in Streams, size \in {0, 1} : DataAvailable3(m, size)
  \/ \E m \in Streams, size \in {0, 1} : RecorderStopped3(m, size)
  \/ \E size \in BlobSizes : ProcessAudioData3(size)
  \/ StopListening3
  \/ Disconnect3

SpecCapture == InitCapture /\ [][NextCapture]_vars


\* ------------------------------------------------------------ conversation
\* VoiceLiveService (voiceLiveService.ts): the conversation that runs on the
\* browser's SpeechRecognition.  A recognizer is "starting" after start(),
\* "running" after onstart, "failing" between onerror and onend, and after
\* onend "idle" or, when an error ended it, "failed".

\* setupWebSpeechAPI() with SpeechRecognition absent from window: the throw
\* goes through startConversation()'s catch
VlUnsupportedOut == <<Emit("error"), Throw("startConversation")>>

\* startConversation(): setupWebSpeechAPI() creates a recognizer, installs
\* the handlers and calls start(); its await settles before any callback.
VlStartConversation(supported) ==
  /\ impl = "voiceLiveService"
  /\ Called("startConversation")
  /\ IF supported
     THEN /\ \E r \in Recognizers :
               /\ recog[r] = "unused"
               /\ \A q \in Recognizers : q < r => recog[q] # "unused"
               /\ recog' = [recog EXCEPT ![r] = "starting"]
               /\ speechRecognizer' = r
          /\ websocket' = NULL
          /\ isListening' = TRUE
          /\ conversationActive' = TRUE
          /\ out' = <<Emit("conversationStarted")>>
     ELSE /\ out' = VlUnsupportedOut
          /\ UNCHANGED <<recog, speechRecognizer, websocket, isListening,
                         conversationActive>>
  /\ UNCHANGED <<impl, config, ixVars, vlPipe, vlStream, playing, restartTimers, initializing, rtVars,
                 isConnected, isSpeaking, mediaStream, mediaRecorder, audioContext,
                 sessionId, sock, setupTimers, stream, rec, gum, blobs, decoding>>

\* speechRecognizer.onstart
VlOnStart(r) ==
  /\ impl = "voiceLiveService"
  /\ recog[r] = "starting"
  /\ Ran("onstart")
  /\ recog' = [recog EXCEPT ![r] = "running"]
  /\ out' = <<Emit("listeningStarted")>>
  /\ UNCHANGED <<impl, config, ixVars, vlPipe, vlStream, playing, speechRecognizer, restartTimers, initializing,
                 fields, sock, setupTimers, stream, rec, gum, blobs, decoding>>

\* speechRecognizer.onerror: no-speech, network, not-allowed, ...
VlOnError(r) ==
  /\ impl = "voiceLiveService"
  /\ recog[r] \in {"starting", "running"}
  /\ Ran("onerror")
  /\ recog' = [recog EXCEPT ![r] = "failing"]
  /\ out' = <<Emit("error")>>
  /\ UNCHANGED <<impl, config, ixVars, vlPipe, vlStream, playing, speechRecognizer, restartTimers, initializing,
                 fields, sock, setupTimers, stream, rec, gum, blobs, decoding>>

\* speechRecognizer.onend: the browser ended the run, after an error or
\* on its own; the handler arms the restart timer while the conversation is
\* active.
VlOnEnd(r) ==
  /\ impl = "voiceLiveService"
  /\ recog[r] \in {"running", "failing"}
  /\ Ran("onend")
  /\ recog' = [recog EXCEPT ![r] = IF @ = "failing" THEN "failed" ELSE "idle"]
  /\ conversationActive => restartTimers < MaxRestart
  /\ restartTimers' = IF conversationActive THEN restartTimers + 1 ELSE restartTimers
  /\ out' = <<>>
  /\ UNCHANGED <<impl, config, ixVars, vlPipe, vlStream, playing, speechRecognizer, initializing,
                 fields, sock, setupTimers, stream, rec, gum, blobs, decoding>>

\* start() of a recognizer that is starting or running throws
\* InvalidStateError
VlStartThrows(r) == recog[r] \notin {"idle", "failed"}

\* The timer of onend fires: this.speechRecognizer.start() while the
\* conversation is active
VlRestartTimer ==
  /\ impl = "voiceLiveService"
  /\ restartTimers > 0
  /\ Ran("timer:restart")
  /\ restartTimers' = restartTimers - 1
  /\ IF ~conversationActive
     THEN out' = <<>> /\ recog' = recog
     ELSE IF VlStartThrows(speechRecognizer)
     THEN out' = <<Throw("timer:restart")>> /\ recog' = recog
     ELSE /\ recog' = [recog EXCEPT ![speechRecognizer] = "starting"]
          /\ out' = <<<<"start", "recognizer", "", speechRecognizer>>>>
  /\ UNCHANGED <<impl, config, ixVars, vlPipe, vlStream, playing, speechRecognizer, initializing,
                 fields, sock, setupTimers, stream, rec, gum, blobs, decoding>>

\* this.speechRecognizer is kept in two variables, by what it holds:
\* websocket when it is a WebSocket, speechRecognizer when it is a
\* SpeechRecognition; the other one is NULL.

\* WebSocket.close() of the socket this.speechRecognizer holds, if any
VlCloseSock == IF websocket # NULL THEN [sock EXCEPT ![websocket] = CloseState(@)] ELSE sock
VlCloseOut  == IF websocket # NULL THEN <<Closed(websocket)>> ELSE <<>>

\* stopAudioStreaming(): MediaRecorder.stop() of a recorder that is not
\* recording throws InvalidStateError
StopAudioStreamingThrows == mediaRecorder # NULL /\ rec[mediaRecorder] # "recording"
StopAudioStreamingRec ==
  IF mediaRecorder # NULL THEN [rec EXCEPT ![mediaRecorder] = "flushing"] ELSE rec

\* stopAudioStreaming(): audioProcessor.disconnect() of the processor the
\* field refers to
StopAudioStreamingProcessors == IF audioProcessor THEN processors - 1 ELSE processors

\* stopConversation(): stopAudioStreaming() stops the MediaRecorder,
\* disconnects the ScriptProcessor and closes the AudioContext (the watchdog
\* timer is left pending); a WebSocket recognizer is closed and dropped, a
\* SpeechRecognition is left as it is.  isConnected is not touched.
VlStopConversation ==
  /\ impl = "voiceLiveService"
  /\ Called("stopConversation")
  /\ IF StopAudioStreamingThrows
     THEN /\ out' = <<Emit("error"), Throw("stopConversation")>>
          /\ UNCHANGED <<rec, mediaRecorder, audioProcessor, processors, audioContext, sock,
                         websocket, isListening, conversationActive>>
     ELSE /\ rec' = StopAudioStreamingRec
          /\ mediaRecorder' = NULL
          /\ audioProcessor' = FALSE
          /\ processors' = StopAudioStreamingProcessors
          /\ audioContext' = FALSE
          /\ sock' = VlCloseSock
          /\ websocket' = NULL
          /\ isListening' = FALSE
          /\ conversationActive' = FALSE
          /\ out' = VlCloseOut \o <<Emit("conversationStopped")>>
  /\ UNCHANGED <<impl, config, ixVars, speechRecognizer, recog, restartTimers, vlPipe,
                 awaited, connectTimers, hasReceivedMessage, messageTimeout, orphans,
                 silent, fallbacks, playing, initializing, rtVars, isConnected, isSpeaking,
                 mediaStream, sessionId, setupTimers, stream, gum, blobs, decoding>>

\* handleUserSpeech(): the test of isProcessing that drops an utterance
HandleUserSpeechSkipsNever(processing) == FALSE

HandleUserSpeechSkips(processing) == processing

\* How many of n handleUserSpeech() calls made in a row by one task start a
\* pipeline, the first of them finding isProcessing = processing
RECURSIVE HandleUserSpeechStarted(_, _)
HandleUserSpeechStarted(processing, n) ==
  IF n = 0 THEN 0
  ELSE IF HandleUserSpeechSkips(processing)
  THEN HandleUserSpeechStarted(processing, n - 1)
  ELSE 1 + HandleUserSpeechStarted(TRUE, n - 1)

\* handleUserSpeech() as far as it runs in the calling task: getAIResponse()
\* awaits nothing, speakResponse() runs up to the fetch of
\* synthesizeSpeech()
RECURSIVE HandleUserSpeechOut(_)
HandleUserSpeechOut(started) ==
  IF started = 0 THEN <<>>
  ELSE <<Emit("processingStarted"), Emit("speakingStarted")>> \o
       HandleUserSpeechOut(started - 1)

\* speechRecognizer.onresult: handleUserSpeech() for every final result of
\* the event; the handler does not look at conversationActive
VlOnResult(r, finals) ==
  /\ impl = "voiceLiveService"
  /\ recog[r] = "running"
  /\ Ran("onresult")
  /\ LET started == HandleUserSpeechStarted(isProcessing, finals)
     IN  /\ synthesizing + playing + started <= MaxPipelines
         /\ synthesizing' = synthesizing + started
         /\ isProcessing' = (isProcessing \/ started > 0)
         /\ isSpeaking' = (isSpeaking \/ started > 0)
         /\ out' = HandleUserSpeechOut(started)
  /\ UNCHANGED <<impl, config, ixVars, vlStream, playing, speechRecognizer, recog, restartTimers,
                 initializing, websocket, rtVars, isConnected, isListening, mediaStream,
                 mediaRecorder, audioContext, sessionId, conversationActive, sock,
                 setupTimers, stream, rec, gum, blobs, decoding>>

\* The finally blocks of speakResponse() and of handleUserSpeech()
PipelineEndOut == <<Emit("speakingEnded"), Emit("processingEnded")>>

\* synthesizeSpeech() settles (the token request, the TTS request and the
\* read of its body change no field): playAudio() starts the Audio element,
\* or the catch of speakResponse() emits the error and the pipeline ends
VlSynthesizeSpeechDone(ok) ==
  /\ impl = "voiceLiveService"
  /\ synthesizing > 0
  /\ Ran("synthesizeSpeech:done")
  /\ synthesizing' = synthesizing - 1
  /\ IF ok
     THEN /\ playing < MaxPlaying
          /\ playing' = playing + 1
          /\ out' = <<>>
          /\ UNCHANGED <<isProcessing, isSpeaking>>
     ELSE /\ isSpeaking' = FALSE
          /\ isProcessing' = FALSE
          /\ out' = <<Emit("error")>> \o PipelineEndOut
          /\ UNCHANGED playing
  /\ UNCHANGED <<impl, config, ixVars, vlStream, speechRecognizer, recog, restartTimers,
                 initializing, websocket, rtVars, isConnected, isListening, mediaStream,
                 mediaRecorder, audioContext, sessionId, conversationActive, sock,
                 setupTimers, stream, rec, gum, blobs, decoding>>

\* audio.onended, or audio.onerror / a rejected play(): playAudio() settles
\* and the pipeline ends
VlPlayAudioDone(ok) ==
  /\ impl = "voiceLiveService"
  /\ playing > 0
  /\ Ran("playAudio:done")
  /\ playing' = playing - 1
  /\ isSpeaking' = FALSE
  /\ isProcessing' = FALSE
  /\ out' = (IF ok THEN <<>> ELSE <<Emit("error")>>) \o PipelineEndOut
  /\ UNCHANGED <<impl, config, ixVars, vlStream, speechRecognizer, recog, restartTimers, synthesizing,
                 initializing, websocket, rtVars, isConnected, isListening, mediaStream,
                 mediaRecorder, audioContext, sessionId, conversationActive, sock,
                 setupTimers, stream, rec, gum, blobs, decoding>>

InitVoice ==
  /\ impl = "voiceLiveService"
  /\ config = [subscriptionKey |-> "k", region |-> "westus"]
  /\ InitFields

NextVoice ==
  \/ \E supported \in BOOLEAN : VlStartConversation(supported)
  \/ VlStopConversation
  \/ \E r \in Recognizers : VlOnStart(r)
  \/ \E r \in Recognizers : VlOnError(r)
  \/ \E r \in Recognizers : VlOnEnd(r)
  \/ VlRestartTimer
  \/ \E r \in Recognizers, finals \in 1..MaxFinals : VlOnResult(r, finals)
  \/ \E ok \in BOOLEAN : VlSynthesizeSpeechDone(ok)
  \/ \E ok \in BOOLEAN : VlPlayAudioDone(ok)

SpecVoice == InitVoice /\ [][NextVoice]_vars


\* --------------------------------------------------------------- streaming
\* VoiceLiveService (voiceLiveService.ts): initialize(), the WebSocket
\* recognizer, the PCM streaming of startWebSocketStreaming() with its
\* watchdog, and the fallback to the REST recorder.  Time is counted in
\* audio periods: one onaudioprocess callback of the ScriptProcessor.

ProcessorSamples == 4096     \* createScriptProcessor(4096, 1, 1)
SampleRate == 16000          \* new AudioContext({ sampleRate: 16000 })
WatchdogMs == 5000           \* setTimeout(..., 5000)

\* whole audio periods (256 ms) that pass before a watchdog timer fires
WatchdogPeriods == (WatchdogMs * SampleRate) \div (ProcessorSamples * 1000)

\* what no action of this part changes
vlFixed == <<impl, config, ixVars, rtVars, sessionId, blobs, decoding, recog,
             restartTimers>>

\* initialize(), up to the await of getUserMedia in initializeAudio()
VlInitialize ==
  /\ impl = "voiceLiveService"
  /\ Called("initialize")
  /\ gum < MaxGum
  /\ gum' = gum + 1
  /\ out' = <<>>
  /\ UNCHANGED <<vlFixed, vlPipe, vlStream, playing, speechRecognizer, initializing,
                 websocket, isConnected, isListening, isSpeaking, mediaStream,
                 mediaRecorder, audioContext, conversationActive, sock, setupTimers,
                 stream, rec>>

\* the catch of initialize()
VlInitializeFailedOut == <<Emit("error"), Throw("initialize")>>

\* getUserMedia rejects: initializeAudio() rethrows into initialize()
VlGumDenied ==
  /\ impl = "voiceLiveService"
  /\ gum > 0
  /\ Ran("getUserMedia:denied")
  /\ gum' = gum - 1
  /\ out' = VlInitializeFailedOut
  /\ UNCHANGED <<vlFixed, vlPipe, vlStream, playing, speechRecognizer, initializing,
                 websocket, isConnected, isListening, isSpeaking, mediaStream,
                 mediaRecorder, audioContext, conversationActive, sock, setupTimers,
                 stream, rec>>

\* getUserMedia resolves with stream m: tryWebSocketRecognition() asks for
\* the access token
VlGumGranted(m) ==
  /\ impl = "voiceLiveService"
  /\ gum > 0
  /\ stream[m] = "unused"
  /\ \A n \in Streams : n < m => stream[n] # "unused"
  /\ initializing < MaxInit
  /\ Ran("getUserMedia:granted")
  /\ gum' = gum - 1
  /\ stream' = [stream EXCEPT ![m] = "live"]
  /\ mediaStream' = m
  /\ initializing' = initializing + 1
  /\ out' = <<Acquire(m), Emit("microphoneReady")>>
  /\ UNCHANGED <<vlFixed, vlPipe, vlStream, playing, speechRecognizer, websocket,
                 isConnected, isListening, isSpeaking, mediaRecorder, audioContext,
                 conversationActive, sock, setupTimers, rec>>

\* getAccessToken() settles.  With the token: new WebSocket, the handlers
\* and the 10 s connection timer.  Without: the promise is rejected and
\* initialize() fails.
VlTokenDone(ok) ==
  /\ impl = "voiceLiveService"
  /\ initializing > 0
  /\ Ran("getAccessToken:done")
  /\ initializing' = initializing - 1
  /\ IF ok
     THEN /\ \E s \in Sockets :
               /\ sock[s] = "unused"
               /\ \A t \in Sockets : t < s => sock[t] # "unused"
               /\ sock' = [sock EXCEPT ![s] = "connecting"]
               /\ websocket' = s
               /\ awaited' = awaited \cup {s}
               /\ connectTimers' = connectTimers \cup {s}
               /\ out' = <<<<"open", "", "", s>>>>
          /\ speechRecognizer' = NULL
     ELSE /\ out' = VlInitializeFailedOut
          /\ UNCHANGED <<sock, websocket, awaited, connectTimers, speechRecognizer>>
  /\ UNCHANGED <<vlFixed, vlPipe, audioProcessor, processors, hasReceivedMessage, messageTimeout,
                 orphans, silent, fallbacks, playing, isConnected, isListening, isSpeaking,
                 mediaStream, mediaRecorder, audioContext, conversationActive,
                 setupTimers, stream, rec, gum>>

\* this.speechRecognizer.send() in a handler or a timer: a TypeError when
\* the field is null, InvalidStateError when the socket it holds is still
\* connecting; st is the readyState of every socket at that moment
VlSendThrows(st) == websocket = NULL \/ st[websocket] = "connecting"
VlSendOut(st, type) ==
  IF st[websocket] = "open" THEN <<Sent(type, websocket)>> ELSE <<>>

\* what the continuation of initialize() sets once the promise resolves
VlInitializedConnected == TRUE

\* onopen of socket s: speech.config goes out on this.speechRecognizer, the
\* 100 ms timer of turn.start is armed, listeningStarted and connected are
\* emitted and the promise resolves; the continuation of initialize() sets
\* isConnected and emits initialized and connected.
VlOnOpen(s) ==
  /\ impl = "voiceLiveService"
  /\ sock[s] = "connecting"
  /\ Ran("onopen")
  /\ sock' = [sock EXCEPT ![s] = "open"]
  /\ IF VlSendThrows(sock')
     THEN /\ out' = <<Throw("onopen")>>
          /\ UNCHANGED <<setupTimers, awaited, isConnected>>
     ELSE /\ setupTimers' = setupTimers + 1
          /\ awaited' = awaited \ {s}
          /\ isConnected' = IF s \in awaited THEN VlInitializedConnected ELSE isConnected
          /\ out' = VlSendOut(sock', "speech.config") \o
                    <<Emit("listeningStarted"), Emit("connected")>> \o
                    (IF s \in awaited
                     THEN <<Emit("initialized"), Emit("connected")>> ELSE <<>>)
  /\ UNCHANGED <<vlFixed, vlPipe, connectTimers, audioProcessor, processors, hasReceivedMessage,
                 messageTimeout, orphans, silent, fallbacks, playing, speechRecognizer,
                 initializing, websocket, isListening, isSpeaking, mediaStream,
                 mediaRecorder, audioContext, conversationActive, stream, rec, gum>>

\* the 100 ms timer of onopen: turn.start on this.speechRecognizer
VlTurnStartTimer ==
  /\ impl = "voiceLiveService"
  /\ setupTimers > 0
  /\ Ran("timer:turn.start")
  /\ setupTimers' = setupTimers - 1
  /\ out' = IF VlSendThrows(sock) THEN <<Throw("timer:turn.start")>>
            ELSE VlSendOut(sock, "turn.start")
  /\ UNCHANGED <<vlFixed, vlPipe, vlStream, playing, speechRecognizer, initializing,
                 websocket, isConnected, isListening, isSpeaking, mediaStream,
                 mediaRecorder, audioContext, conversationActive, sock, stream, rec,
                 gum>>

\* onmessage of socket s: the message is noted and the watchdog cleared; a
\* recognized phrase goes to handleUserSpeech()
VlOnMessage(s, phrase) ==
  /\ impl = "voiceLiveService"
  /\ sock[s] = "open"
  /\ Ran("onmessage")
  /\ hasReceivedMessage' = TRUE
  /\ messageTimeout' = NoTimer
  /\ LET started == HandleUserSpeechStarted(isProcessing, IF phrase THEN 1 ELSE 0)
     IN  /\ synthesizing + playing + started <= MaxPipelines
         /\ synthesizing' = synthesizing + started
         /\ isProcessing' = (isProcessing \/ started > 0)
         /\ isSpeaking' = (isSpeaking \/ started > 0)
         /\ out' = HandleUserSpeechOut(started)
  /\ UNCHANGED <<vlFixed, awaited, connectTimers, audioProcessor, processors, orphans, silent, fallbacks,
                 fallbacks, playing, speechRecognizer, initializing, websocket, isConnected,
                 isListening, mediaStream, mediaRecorder, audioContext,
                 conversationActive, sock, setupTimers, stream, rec, gum>>

\* what onclose and onerror do to isConnected: nothing
VlOnCloseConnected == isConnected

\* onclose
VlOnCloseOut == <<Emit("listeningStopped"), Emit("disconnected")>>

\* The browser fails the connection of socket s: onerror rejects the
\* promise, and initialize() fails if it was still waiting for it; onclose
\* follows.
VlOnFail(s) ==
  /\ impl = "voiceLiveService"
  /\ sock[s] \in {"connecting", "open", "aborting"}
  /\ Ran("onerror+onclose")
  /\ sock' = [sock EXCEPT ![s] = "closed"]
  /\ awaited' = awaited \ {s}
  /\ isConnected' = VlOnCloseConnected
  /\ out' = (IF s \in awaited THEN VlInitializeFailedOut ELSE <<>>) \o VlOnCloseOut
  /\ UNCHANGED <<vlFixed, vlPipe, connectTimers, audioProcessor, processors, hasReceivedMessage,
                 messageTimeout, orphans, silent, fallbacks, playing, speechRecognizer,
                 initializing, websocket, isListening, isSpeaking, mediaStream,
                 mediaRecorder, audioContext, conversationActive, setupTimers, stream,
                 rec, gum>>

\* The closing handshake of socket s ends: onclose
VlOnClose(s) ==
  /\ impl = "voiceLiveService"
  /\ sock[s] \in {"open", "closing"}
  /\ Ran("onclose")
  /\ sock' = [sock EXCEPT ![s] = "closed"]
  /\ isConnected' = VlOnCloseConnected
  /\ out' = VlOnCloseOut
  /\ UNCHANGED <<vlFixed, vlPipe, vlStream, playing, speechRecognizer, initializing,
                 websocket, isListening, isSpeaking, mediaStream, mediaRecorder,
                 audioContext, conversationActive, setupTimers, stream, rec, gum>>

\* The 10 s timer armed with socket s: it looks at this.speechRecognizer,
\* whatever that holds by now, closes it if it is not open and rejects the
\* promise of s.
VlConnectTimeout(s) ==
  /\ impl = "voiceLiveService"
  /\ s \in connectTimers
  /\ Ran("timer:connect")
  /\ connectTimers' = connectTimers \ {s}
  /\ IF websocket = NULL
     THEN /\ out' = <<Throw("timer:connect")>>
          /\ UNCHANGED <<sock, awaited>>
     ELSE IF sock[websocket] = "open"
     THEN /\ out' = <<>>
          /\ UNCHANGED <<sock, awaited>>
     ELSE /\ sock' = VlCloseSock
          /\ awaited' = awaited \ {s}
          /\ out' = VlCloseOut \o
                    (IF s \in awaited THEN VlInitializeFailedOut ELSE <<>>)
  /\ UNCHANGED <<vlFixed, vlPipe, audioProcessor, processors, hasReceivedMessage, messageTimeout,
                 orphans, silent, fallbacks, playing, speechRecognizer, initializing, websocket,
                 isConnected, isListening, isSpeaking, mediaStream, mediaRecorder,
                 audioContext, conversationActive, setupTimers, stream, rec, gum>>

\* startWebSocketStreaming(): a private method that nothing in the class
\* calls.  It connects a new ScriptProcessor, leaving one that is connected
\* already as it is, resets hasReceivedMessage and drops the reference to a
\* pending watchdog timer without clearing it.
VlStartWebSocketStreaming ==
  /\ impl = "voiceLiveService"
  /\ Ran("startWebSocketStreaming")
  /\ IF mediaStream = NULL
     THEN UNCHANGED <<audioContext, audioProcessor, processors, hasReceivedMessage,
                      messageTimeout, orphans, silent, fallbacks>>
     ELSE /\ audioContext' = TRUE
          /\ processors < MaxProcessors
          /\ processors' = processors + 1
          /\ audioProcessor' = TRUE
          /\ hasReceivedMessage' = FALSE
          /\ messageTimeout' = NoTimer
          /\ messageTimeout # NoTimer => Len(orphans) < MaxOrphans
          /\ orphans' = IF messageTimeout # NoTimer
                        THEN Append(orphans, messageTimeout) ELSE orphans
          /\ silent' = 0
          /\ fallbacks' = 0
  /\ out' = <<>>
  /\ UNCHANGED <<vlFixed, vlPipe, awaited, connectTimers, playing, speechRecognizer,
                 initializing, websocket, isConnected, isListening, isSpeaking,
                 mediaStream, mediaRecorder, conversationActive, sock, setupTimers,
                 stream, rec, gum>>

\* The watchdog after an audio frame was sent with hasReceivedMessage
\* false: the pending timer is cleared and a new one armed
RearmedTimeout(t) == WatchdogPeriods

\* processor.onaudioprocess of every connected processor, one audio period
\* after the one before: every pending timer is one period nearer; on an
\* open socket the frame is sent and, while no message has come in, the
\* watchdog is armed again.  silent counts the periods.
VlAudioProcess ==
  /\ impl = "voiceLiveService"
  /\ processors > 0
  /\ messageTimeout # 0
  /\ \A i \in 1..Len(orphans) : orphans[i] # 0
  /\ Ran("onaudioprocess")
  /\ orphans' = [i \in 1..Len(orphans) |-> orphans[i] - 1]
  /\ LET open == websocket # NULL /\ sock[websocket] = "open"
         arm  == open /\ ~hasReceivedMessage
     IN  /\ arm => silent < MaxSilent
         /\ silent' = IF arm THEN silent + 1 ELSE silent
         /\ messageTimeout' = IF arm THEN RearmedTimeout(messageTimeout)
                              ELSE IF messageTimeout = NoTimer THEN NoTimer
                              ELSE messageTimeout - 1
         /\ out' = IF open THEN [i \in 1..processors |-> Sent("audio", websocket)]
                   ELSE <<>>
  /\ UNCHANGED <<vlFixed, vlPipe, awaited, connectTimers, audioProcessor, processors, fallbacks,
                 hasReceivedMessage, playing, speechRecognizer, initializing, websocket,
                 isConnected, isListening, isSpeaking, mediaStream, mediaRecorder,
                 audioContext, conversationActive, sock, setupTimers, stream, rec, gum>>

\* fallbackToRestAPI(), called and not awaited by the watchdog:
\* stopAudioStreaming(), the socket closed and dropped,
\* setupRestApiRecognition() and startRestApiStreaming().  A failure is
\* rethrown to nobody.  recOk: new MediaRecorder() accepts the mime type.
\* The "fallback" entry of out is its console message.
FallbackToRestAPI(recOk) ==
  /\ fallbacks < MaxFallbacks
  /\ fallbacks' = fallbacks + 1
  /\ IF StopAudioStreamingThrows
     THEN /\ out' = <<Throw("fallbackToRestAPI")>>
          /\ UNCHANGED <<rec, mediaRecorder, audioProcessor, processors, audioContext, sock, websocket>>
     ELSE /\ audioProcessor' = FALSE
 /\ processors' = StopAudioStreamingProcessors
          /\ audioContext' = FALSE
          /\ sock' = VlCloseSock
          /\ websocket' = NULL
          /\ IF mediaStream # NULL /\ recOk
             THEN /\ mediaRecorder' = mediaStream
                  /\ rec' = [StopAudioStreamingRec EXCEPT ![mediaStream] = "recording"]
                  /\ out' = <<<<"fallback", "", "", 0>>>> \o VlCloseOut \o
                            <<Emit("listeningStarted")>>
             ELSE /\ mediaRecorder' = NULL
                  /\ rec' = StopAudioStreamingRec
                  /\ out' = <<<<"fallback", "", "", 0>>>> \o VlCloseOut \o
                            <<Throw("fallbackToRestAPI")>>

\* the test the watchdog callback makes before it falls back
WatchdogFallsBack == ~hasReceivedMessage

\* A timer is due when its periods are over; with no ScriptProcessor
\* connected nothing measures the time and it may be due at any moment.
Due(t) == t # NoTimer /\ (t = 0 \/ processors = 0)

\* the watchdog timer this.messageTimeout refers to fires
VlMessageTimeout(recOk) ==
  /\ impl = "voiceLiveService"
  /\ Due(messageTimeout)
  /\ Ran("timer:watchdog")
  /\ messageTimeout' = NoTimer
  /\ IF WatchdogFallsBack
     THEN FallbackToRestAPI(recOk)
     ELSE /\ out' = <<>>
          /\ UNCHANGED <<rec, mediaRecorder, audioProcessor, processors, audioContext, sock,
                         websocket, fallbacks>>
  /\ UNCHANGED <<vlFixed, vlPipe, awaited, connectTimers, hasReceivedMessage, orphans,
                 silent, playing, speechRecognizer, initializing, isConnected,
                 isListening, isSpeaking, mediaStream, conversationActive, setupTimers,
                 stream, gum>>

\* a watchdog timer of an earlier streaming run fires
VlOrphanTimeout(i, recOk) ==
  /\ impl = "voiceLiveService"
  /\ i \in 1..Len(orphans)
  /\ Due(orphans[i])
  /\ Ran("timer:watchdog")
  /\ orphans' = SubSeq(orphans, 1, i - 1) \o SubSeq(orphans, i + 1, Len(orphans))
  /\ IF WatchdogFallsBack
     THEN FallbackToRestAPI(recOk)
     ELSE /\ out' = <<>>
          /\ UNCHANGED <<rec, mediaRecorder, audioProcessor, processors, audioContext, sock,
                         websocket, fallbacks>>
  /\ UNCHANGED <<vlFixed, vlPipe, awaited, connectTimers, hasReceivedMessage,
                 messageTimeout, silent, playing, speechRecognizer, initializing,
                 isConnected, isListening, isSpeaking, mediaStream, conversationActive,
                 setupTimers, stream, gum>>

\* cleanup(): stopConversation(), the tracks of the microphone stream
\* stopped, isConnected = false
VlCleanup ==
  /\ impl = "voiceLiveService"
  /\ Called("cleanup")
  /\ IF StopAudioStreamingThrows
     THEN /\ out' = <<Emit("error"), Throw("cleanup")>>
          /\ UNCHANGED <<rec, stream, mediaStream, mediaRecorder, audioProcessor, processors,
                         audioContext, sock, websocket, isListening,
                         conversationActive, isConnected>>
     ELSE /\ LET t == StopTracks(stream, StopAudioStreamingRec, mediaStream)
             IN  /\ stream' = IF mediaStream # NULL THEN t.stream ELSE stream
                 /\ rec' = IF mediaStream # NULL THEN t.rec ELSE StopAudioStreamingRec
          /\ mediaStream' = NULL
          /\ mediaRecorder' = NULL
          /\ audioProcessor' = FALSE
          /\ processors' = StopAudioStreamingProcessors
          /\ audioContext' = FALSE
          /\ sock' = VlCloseSock
          /\ websocket' = NULL
          /\ isListening' = FALSE
          /\ conversationActive' = FALSE
          /\ isConnected' = FALSE
          /\ out' = VlCloseOut \o <<Emit("conversationStopped")>>
  /\ UNCHANGED <<vlFixed, vlPipe, awaited, connectTimers, hasReceivedMessage,
                 messageTimeout, orphans, silent, fallbacks, playing, speechRecognizer,
                 initializing, isSpeaking, setupTimers, gum>>

InitStream ==
  /\ impl = "voiceLiveService"
  /\ config = [subscriptionKey |-> "k", region |-> "westus"]
  /\ InitFields

\* one initialize(); the messages that come in carry no recognized phrase
NextStream ==
  \/ hist = "new" /\ VlInitialize
  \/ VlGumDenied
  \/ \E m \in Streams : VlGumGranted(m)
  \/ \E ok \in BOOLEAN : VlTokenDone(ok)
  \/ \E s \in Sockets : VlOnOpen(s)
  \/ VlTurnStartTimer
  \/ \E s \in Sockets : VlOnMessage(s, FALSE)
  \/ \E s \in Sockets : VlOnFail(s)
  \/ \E s \in Sockets : VlOnClose(s)
  \/ \E s \in Sockets : VlConnectTimeout(s)
  \/ VlStartWebSocketStreaming
  \/ VlAudioProcess
  \/ \E recOk \in BOOLEAN : VlMessageTimeout(recOk)
  \/ \E i \in 1..MaxOrphans, recOk \in BOOLEAN : VlOrphanTimeout(i, recOk)
  \/ VlStopConversation
  \/ VlCleanup

SpecStream == InitStream /\ [][NextStream]_vars


\* ---------------------------------------------------------- configuration
\* initialize() of the WebSocket versions under every configuration: each
\* required field present or absent.
AbsentConfigs ==
  { [endpoint |-> e, deployment |-> d, apiKey |-> k] :
       e \in {"", "https://x.example.com"}, d \in {"", "d1"}, k \in {"", "k"} }

InitConfig ==
  /\ impl \in WsImpls
  /\ config \in AbsentConfigs
  /\ InitFields

NextConfig ==
  \/ Initialize
  \/ Connect
  \/ SendTextMessage
  \/ Disconnect
  \/ /\ initializing = 0
     /\ \/ \E s \in Sockets : OnOpen(s)
        \/ \E s \in Sockets : OnFail(s)
        \/ \E s \in Sockets : OnClose(s)
        \/ SetupTimer

SpecConfig == InitConfig /\ [][NextConfig]_vars


\* ------------------------------------------------------------- chat page
\* The chat page (Index, in authService.ts) and saveConversationToSupabase
\* (azureService.ts).  A conversation is its id, its isTemporary flag, the
\* number of its messages and its sentToTherapist flag (Conversation, above).
\* setConversations(prev => prev.map(c => c.id === u.id ? u : c))
MapConversation(list, u) == { IF c.id = u.id THEN u ELSE c : c \in list }

\* saveConversationToSupabase(conversation): a temporary chat is skipped
\* before anything is asked of the store
SaveSkipsNothing(conv) == FALSE
SaveSkips(conv) == conv.isTemporary
SaveRequest(conv) ==
  <<"save", IF conv.isTemporary THEN "temporary" ELSE "saved", "", conv.id>>
SaveConversation(conv) == IF SaveSkips(conv) THEN <<>> ELSE <<SaveRequest(conv)>>

\* handleNewConversation(temporary)
NewConversationFx(temporary) ==
  LET n == Conversation(nextId, temporary, 0)
  IN [conversations |-> conversations \cup {n}, currentConversation |-> n,
      isTemporaryChat |-> temporary]

HandleNewConversation(temporary) ==
  /\ impl = "Index"
  /\ nextId <= MaxConvs
  /\ Called("handleNewConversation")
  /\ conversations' = NewConversationFx(temporary).conversations
  /\ currentConversation' = NewConversationFx(temporary).currentConversation
  /\ isTemporaryChat' = temporary
  /\ nextId' = nextId + 1
  /\ out' = <<>>
  /\ UNCHANGED <<impl, config, vlVars, playing, sends, initializing, fields, sock,
                 setupTimers, stream, rec, gum, blobs, decoding>>

\* handleSelectConversation(conversation): the sidebar lists the
\* conversations that are not temporary
HandleSelectConversation(conv) ==
  /\ impl = "Index"
  /\ conv \in conversations
  /\ ~conv.isTemporary
  /\ Called("handleSelectConversation")
  /\ currentConversation' = conv
  /\ isTemporaryChat' = conv.isTemporary
  /\ out' = <<>>
  /\ UNCHANGED <<impl, config, vlVars, playing, conversations, nextId, sends,
                 initializing, fields, sock, setupTimers, stream, rec, gum, blobs,
                 decoding>>

\* handleSendMessage(content) up to await callOpenAI(updatedMessages)
HandleSendMessage ==
  /\ impl = "Index"
  /\ sends = {}                  \* ChatInput sends only while ~isLoading
  /\ Called("handleSendMessage")
  /\ LET made == currentConversation = NoConversation
         conversation == IF made THEN Conversation(nextId, isTemporaryChat, 0)
                         ELSE currentConversation
         updatedConversation ==
           [conversation EXCEPT !.messages = @ + 1, !.isTemporary = isTemporaryChat]
     IN /\ made => nextId <= MaxConvs
        /\ conversation.messages + 2 <= MaxMsgs
        /\ nextId' = IF made THEN nextId + 1 ELSE nextId
        /\ currentConversation' = updatedConversation
        /\ conversations' =
             MapConversation(IF made THEN conversations \cup {conversation}
                             ELSE conversations, updatedConversation)
        /\ sends' = sends \cup {updatedConversation}
  /\ out' = <<>>
  /\ UNCHANGED <<impl, config, vlVars, playing, isTemporaryChat, initializing, fields,
                 sock, setupTimers, stream, rec, gum, blobs, decoding>>

\* handleSendMessage() after callOpenAI settled (callOpenAI answers with a
\* fallback text when the request fails): the reply is appended and the
\* conversation saved unless the call was made in a temporary chat.
SendMessageDone(updatedConversation) ==
  /\ impl = "Index"
  /\ updatedConversation \in sends
  /\ Ran("handleSendMessage:response")
  /\ LET finalConversation == [updatedConversation EXCEPT !.messages = @ + 1]
     IN /\ currentConversation' = finalConversation
        /\ conversations' = MapConversation(conversations, finalConversation)
        /\ out' = IF ~updatedConversation.isTemporary
                  THEN SaveConversation(finalConversation) ELSE <<>>
  /\ sends' = sends \ {updatedConversation}
  /\ UNCHANGED <<impl, config, vlVars, playing, nextId, isTemporaryChat, initializing,
                 fields, sock, setupTimers, stream, rec, gum, blobs, decoding>>

\* handleDeleteMessage(messageId); the last message takes the conversation
\* with it (handleDeleteConversation)
HandleDeleteMessage ==
  /\ impl = "Index"
  /\ currentConversation # NoConversation
  /\ currentConversation.messages > 0
  /\ Called("handleDeleteMessage")
  /\ IF currentConversation.messages = 1
     THEN /\ conversations' = { c \in conversations : c.id # currentConversation.id }
          /\ currentConversation' = NoConversation
          /\ out' = <<<<"delete", "conversation", "", currentConversation.id>>>>
     ELSE LET updatedConversation == [currentConversation EXCEPT !.messages = @ - 1]
          IN /\ currentConversation' = updatedConversation
             /\ conversations' = MapConversation(conversations, updatedConversation)
             /\ out' = SaveConversation(updatedConversation)
  /\ UNCHANGED <<impl, config, vlVars, playing, nextId, isTemporaryChat, sends,
                 initializing, fields, sock, setupTimers, stream, rec, gum, blobs,
                 decoding>>

\* handleSendToTherapist(messageId)
HandleSendToTherapist(therapistEmail) ==
  /\ impl = "Index"
  /\ currentConversation # NoConversation
  /\ currentConversation.messages > 0
  /\ Called("handleSendToTherapist")
  /\ IF ~therapistEmail
     THEN /\ out' = <<>>
          /\ UNCHANGED <<currentConversation, conversations>>
     ELSE LET updatedConversation ==
                [currentConversation EXCEPT !.sentToTherapist = TRUE]
          IN /\ currentConversation' = updatedConversation
             /\ conversations' = MapConversation(conversations, updatedConversation)
             /\ out' = SaveConversation(updatedConversation)
  /\ UNCHANGED <<impl, config, vlVars, playing, nextId, isTemporaryChat, sends,
                 initializing, fields, sock, setupTimers, stream, rec, gum, blobs,
                 decoding>>

\* toggleTemporaryChat()
ToggleTemporaryChat ==
  /\ impl = "Index"
  /\ Called("toggleTemporaryChat")
  /\ IF currentConversation # NoConversation /\ currentConversation.messages = 0
     THEN LET updatedConversation ==
                [currentConversation EXCEPT !.isTemporary = ~isTemporaryChat]
          IN /\ currentConversation' = updatedConversation
             /\ conversations' = MapConversation(conversations, updatedConversation)
             /\ nextId' = nextId
     ELSE /\ nextId <= MaxConvs
          /\ conversations' = NewConversationFx(~isTemporaryChat).conversations
          /\ currentConversation' = NewConversationFx(~isTemporaryChat).currentConversation
          /\ nextId' = nextId + 1
  /\ isTemporaryChat' = ~isTemporaryChat
  /\ out' = <<>>
  /\ UNCHANGED <<impl, config, vlVars, playing, sends, initializing, fields, sock,
                 setupTimers, stream, rec, gum, blobs, decoding>>

InitIndex ==
  /\ impl = "Index"
  /\ config = [endpoint |-> "", deployment |-> "", apiKey |-> ""]
  /\ InitFields

NextIndex ==
  \/ \E temporary \in BOOLEAN : HandleNewConversation(temporary)
  \/ \E conv \in conversations : HandleSelectConversation(conv)
  \/ HandleSendMessage
  \/ \E u \in sends : SendMessageDone(u)
  \/ HandleDeleteMessage
  \/ \E therapistEmail \in BOOLEAN : HandleSendToTherapist(therapistEmail)
  \/ ToggleTemporaryChat

SpecIndex == InitIndex /\ [][NextIndex]_vars


\* =========================================================================
\* Properties
\* =========================================================================
Live(s) == sock[s] \in {"connecting", "open"}
CurrentSocket == IF impl = "realtimeService" THEN client ELSE websocket

\* Idle: not connected, no transport open or pending, no session id, no
\* microphone stream and no recorder at work.
Idle ==
  /\ ~isConnected
  /\ CurrentSocket = NULL
  /\ \A s \in Sockets : ~Live(s)
  /\ sessionId = Null
  /\ \A m \in Streams : stream[m] # "live" /\ rec[m] # "recording"

\* C1: a client whose only calls were connect and then, immediately,
\* disconnect is Idle from then on.
C1_ConnectDisconnectIdle == hist = "connect;disconnect" => Idle

\* C2: an audio frame is handed to the transport only while the client is
\* listening.
C2_NoFrameWhileNotListening == HasSend(out, "audio") => isListening

\* C3: at most one transport of a client is open or pending at any time.
C3_AtMostOneTransport == Cardinality({s \in Sockets : Live(s)}) <= 1

\* C4: events come out in the order of the frames that cause them: when a
\* frame's event is emitted no earlier frame still waits for its own.
C4_FrameOrder == (op \in OnMessageOps /\ HasKind(out, "emit")) => decoding = 0

C6_UndecodableDropped == op = "onmessage:undecodable" => out = <<>>

\* SessionReady: connected on an open transport, session id received.
SessionReady ==
  /\ isConnected
  /\ CurrentSocket # NULL
  /\ sock[CurrentSocket] = "open"
  /\ impl \in WsImpls => sessionId # Null

\* C7: startListening() goes on to the microphone only in SessionReady.
C7_StartListeningNeedsSession ==
  (op = "startListening" /\ ~HasKind(out, "throw")) => SessionReady

\* C8: when the microphone is refused startListening() rejects, isListening
\* is left as it was, nothing is acquired or sent and listeningStarted is
\* not emitted; a client that was never given a microphone never listens
\* and never has a chunk to send.
NeverGranted == \A m \in Streams : stream[m] = "unused"

C8_MicrophoneDenied ==
  /\ [](NeverGranted =>
          /\ ~isListening
          /\ blobs = 0
          /\ ~HasSend(out, "audio")
          /\ ~HasEmit(out, "listeningStarted"))
  /\ [][op' = "getUserMedia:denied" =>
          /\ out' = <<Emit("error"), Throw("startListening")>>
          /\ isListening' = isListening
          /\ stream' = stream /\ rec' = rec /\ blobs' = blobs]_vars

C8_Witness ==
  /\ op = "getUserMedia:denied"
  /\ NeverGranted
  /\ ~isListening
  /\ HasKind(out, "throw")
  /\ isConnected

\* C9: disconnect() on a client that holds a session id sends the
\* end-of-session message before it closes the transport.
C9_EndOfSessionSent ==
  [][(op' = "disconnect" /\ sessionId # Null /\ websocket # NULL
        /\ sock[websocket] = "open" /\ isConnected) =>
       HasSend(out', "session.end")]_vars

\* C10: disconnect() on a client that is already disconnected does nothing:
\* it emits nothing and changes nothing.
Disconnected == ~isConnected /\ CurrentSocket = NULL /\ ~isListening

C10_DisconnectTwiceNoOp ==
  [][(op' = "disconnect" /\ Disconnected) => (out' = <<>> /\ fields' = fields)]_vars

\* The connect attempt is over: no continuation of initialize() or connect()
\* is waiting and no socket is still connecting.
Settled ==
  /\ initializing = 0
  /\ sending = {}
  /\ \A s \in Sockets : sock[s] # "connecting"

\* C11: when disconnect() was called right after the connect call, then once
\* that attempt is over no socket is open and no microphone stream is held.
C11_TeardownNotOvertaken ==
  (hist = "connect;disconnect" /\ Settled) =>
     /\ \A s \in Sockets : sock[s] # "open"
     /\ \A m \in Streams : stream[m] # "live"

\* What the client still has to run by itself while the transport and the
\* application are silent: continuations and timers.
ClientSteps == Connect \/ SetupTimer

\* C12: a connect that waits for its socket to open has a step of the client
\* ahead that ends the wait; it does not rest on the transport alone.
C12_ConnectTimesOut ==
  (impl \in WsImpls /\ \E s \in Sockets : sock[s] = "connecting") =>
     ENABLED ClientSteps

\* C13: the session configuration goes out before any text or audio: no
\* text message and no audio frame is sent while a session setup still
\* waits for its timer.
C13_ConfigurationFirst ==
  (HasSend(out, "text") \/ HasSend(out, "audio")) => setupTimers = 0

\* The session.created messages that carry an identifier, under session_id
\* or under id, at the top level or under data
IdFrames ==
  { fr \in CreatedFrames :
       ~fr.quoted /\ (fr.session_id # Undefined \/ fr.id # Undefined) }
FrameIds(fr) == {fr.session_id, fr.id} \ {Undefined}

\* C14: a session.created message that carries an identifier makes exactly
\* one sessionCreated event whose argument is that identifier, and the
\* identifier is stored.
C14_SessionCreatedCarriesId ==
  [][\A s \in Sockets, fr \in IdFrames :
       OnMessage(s, fr) =>
          /\ \E i \in FrameIds(fr) : out' = <<EmitArg("sessionCreated", i)>>
          /\ sessionId' \in FrameIds(fr)]_vars

\* C15: never two audio chunks rendering at once: a chunk starts only when
\* the one before it has been rendered to its end.
C15_OneChunkAtATime == playing <= 1

\* C16: stopListening() leaves no recorder recording, no microphone stream
\* live and isListening false.
C16_StopListeningReleases ==
  op = "stopListening" =>
     /\ ~isListening
     /\ \A m \in Streams : stream[m] # "live" /\ rec[m] # "recording"

\* C17: listeningStarted and listeningStopped alternate, listeningStarted
\* first: a client that never got a microphone stream, and so never emitted
\* listeningStarted, does not emit listeningStopped.
C17_StartedBeforeStopped ==
  NeverGranted => ~HasEmit(out, "listeningStopped")

\* C18: no byte of one listening period is transmitted in a later one: when
\* a listening period starts after the one before it was stopped, the
\* outbound buffer holds nothing captured before it.
C18_NothingCarriedOver ==
  (/\ impl = "realtimeService"
   /\ HasEmit(out, "listeningStarted")
   /\ \A m \in Streams : m # mediaStream => stream[m] # "live") => audioBuffer = 0

\* C20: the API key is in no address written to the log, neither as it is
\* nor URL-encoded.
C20_KeyNotLogged ==
  \A i \in 1..Len(out) :
     out[i][1] = "log" =>
        /\ ~Contains(out[i][3], KeyChars(config.apiKey))
        /\ ~Contains(out[i][3], EncodeURIComponent(KeyChars(config.apiKey)))

\* C19: after an error event the client does not restart recognition on its
\* own: a recognizer whose run ended in an error starts again only in a
\* call of startConversation().
C19_NoAutomaticRestart ==
  [][\A r \in Recognizers :
       (recog[r] = "failed" /\ recog'[r] = "starting") => op' = "startConversation"]_vars

\* C21: with a required configuration field absent no transport is ever
\* created and the client is never connected.
C21_ConfigurationChecked ==
  ~ValidConfig(config) => (isConnected = FALSE /\ \A s \in Sockets : sock[s] = "unused")

\* The entry of the conversations state, and the currentConversation, with
\* a given id
IsTemporary(c) ==
  \/ \E conv \in conversations : conv.id = c /\ conv.isTemporary
  \/ currentConversation # NoConversation /\ currentConversation.id = c
       /\ currentConversation.isTemporary

\* C22: no save request is issued for a conversation while it is temporary.
C22_TemporaryNeverSaved ==
  \A i \in 1..Len(out) :
     out[i][1] = "save" => (out[i][2] = "saved" /\ ~IsTemporary(out[i][4]))

\* a message of a temporary chat was deleted, others remain, and the save
\* handleDeleteMessage() asks for was not made
C22_Witness ==
  /\ op = "handleDeleteMessage"
  /\ currentConversation # NoConversation
  /\ currentConversation.isTemporary
  /\ currentConversation.messages > 0
  /\ out = <<>>

\* C25: RealtimeService is listening only while it is connected.
C25_ListeningOnlyConnected ==
  impl = "part_001" => (isListening => isConnected)

\* The 'connected' and 'disconnected' events of a task, in the order emitted
ConnectionEvents(o) ==
  SelectSeq(o, LAMBDA e : e[1] = "emit" /\ e[2] \in {"connected", "disconnected"})

\* C26: the connected and disconnected events a subscriber gets alternate;
\* in particular no task delivers two of the same kind in a row.
C26_ConnectedAlternates ==
  impl = "part_001" =>
    LET ev == ConnectionEvents(out)
    IN  \A i \in 1..Len(ev) - 1 : ev[i][2] # ev[i + 1][2]

\* C28: while isListening is false the client holds no live microphone
\* stream and no recorder that is recording.
C28_IdleHoldsNoMicrophone ==
  (impl = "part_001" /\ ~isListening) =>
     \A m \in Streams : stream[m] # "live" /\ rec[m] # "recording"

\* The processingStarted events among the events of a task
ProcessingStarted(o) ==
  SelectSeq(o, LAMBDA e : e[1] = "emit" /\ e[2] = "processingStarted")

\* C29: at most one handleUserSpeech() pipeline is in progress; an utterance
\* recognized while isProcessing is true starts nothing and emits nothing;
\* processingStarted is emitted only with isProcessing false before and true
\* after, processingEnded only with isProcessing true before and false
\* after, also when the synthesis or the playback failed.
C29_OnePipeline ==
  [][/\ synthesizing' + playing' <= 1
     /\ isProcessing' <=> (synthesizing' + playing' = 1)
     /\ (op' = "onresult" /\ isProcessing) =>
           (out' = <<>> /\ synthesizing' = synthesizing /\ playing' = playing)
     /\ HasEmit(out', "processingStarted") =>
           (~isProcessing /\ isProcessing' /\ Len(ProcessingStarted(out')) = 1)
     /\ HasEmit(out', "processingEnded") => (isProcessing /\ ~isProcessing')]_vars

\* an utterance was recognized during the playback of a reply and dropped
C29_Witness ==
  /\ op = "onresult"
  /\ out = <<>>
  /\ isProcessing
  /\ playing = 1

\* C30: once stopConversation() has returned, and until startConversation()
\* is called again, no recognized speech is processed: no task emits
\* processingStarted.
C30_NothingProcessedAfterStop ==
  (impl = "voiceLiveService" /\ speechRecognizer # NULL /\ ~conversationActive) =>
     ~HasEmit(out, "processingStarted")

\* C23: while audio is streamed on an open transport and no message comes
\* in, the watchdog fires and the client falls back: the watchdog armed by
\* the first frame lets at most WatchdogPeriods further frames go out
\* before it does.
C23_WatchdogFires == silent <= WatchdogPeriods + 1

\* C27: isConnected is true only while a transport of the client is open.
C27_ConnectedOnlyWhileOpen ==
  (impl = "voiceLiveService" /\ isConnected) => \E s \in Sockets : sock[s] = "open"

====
